---- MODULE Spec2Model ----
(***************************************************************************)
(* The action execution engine of openslides-backend: Action.perform with   *)
(* its schema validation, permission check, payload transformation,        *)
(* per-instance processing, merging of write requests, the locked-fields    *)
(* registry of the shared datastore, nested action execution, and the       *)
(* pure functions merge_write_requests and validate_required_fields.        *)
(***************************************************************************)
EXTENDS Integers, Sequences, FiniteSets, TLC

VARIABLES
    stack,          \* call stack of perform frames; stack[1] is the top-level action object
    models,         \* persisted datastore content
    locked_fields,  \* datastore.locked_fields, the registry shared by all actions
    written,        \* write requests handed to the datastore for commit
    next_id,        \* per collection, the next id reserve_id hands out
    trace,          \* observed steps of the running top-level call: <<call id, step>>
    calls,          \* number of perform calls started in this request (call ids)
    stamp,          \* number of events built in this request
    requests,       \* number of top-level requests started
    reads,          \* keys of the fields read with lock_result in this request
    pending,        \* write requests the request handler holds until it writes them
    mw,             \* harness of merge_write_requests: input, result
    vr,             \* harness of validate_required_fields: write request, fdict, result
    vrel,           \* harness of validate_relation_fields: instance, models, result
    hru,            \* harness of handle_relation_updates: relation updates, result
    fm,             \* harness of fetch_model: context, datastore, registry, result
    nctx,           \* harness of execute_other_action's relation models: the three dicts, result
    ag,             \* harness of agenda_item.create's get_updated_instances: payload, datastore, result
    produced        \* the write requests built in this request, in the order they were built

vars == <<stack, models, locked_fields, written, next_id, trace, calls, stamp, requests, reads, pending, mw, vr, vrel, hru, fm, nctx, ag, produced>>

-----------------------------------------------------------------------------
(* Bounds of the model *)

MaxPayload == 2

MaxRequests == 2

MaxDepth == 1

MaxMerge == 3

MaxEvents == 3

-----------------------------------------------------------------------------
(* Values and instances.  An instance maps field names to values; Absent    *)
(* stands for a key that is not in the dict, Null for Python's None.        *)

Absent == -2

Null == -1

Fields == {"id", "name", "meeting_id", "wrong_field", "user_id", "list_of_speakers_id", "weight",
           "type", "parent_id", "level", "is_hidden", "is_internal"}

EmptyInstance == [f \in Fields |-> Absent]

Keys(instance) == {f \in Fields : instance[f] # Absent}

\* instance.get(f): None for a key that is missing
Get(instance, f) == IF instance[f] = Absent THEN Null ELSE instance[f]

\* Python truthiness of a scalar value: None and 0 are falsy
Falsy(v) == v \in {Absent, Null, 0}

Inst1(f, v) == [EmptyInstance EXCEPT ![f] = v]

Inst2(f, v, g, w) == [EmptyInstance EXCEPT ![f] = v, ![g] = w]

SeqsUpTo(S, n) == UNION {[1..k -> S] : k \in 0..n}

RECURSIVE SumSeq(_)
SumSeq(s) == IF s = <<>> THEN 0 ELSE Head(s) + SumSeq(Tail(s))

RECURSIVE Flatten(_)
Flatten(ss) == IF ss = <<>> THEN <<>> ELSE Head(ss) \o Flatten(Tail(ss))

-----------------------------------------------------------------------------
(* Events and write requests *)

Create == "create"

Update == "update"

Delete == "delete"

EventTypes == <<Create, Update, Delete>>

NoList == [add |-> <<>>, remove |-> <<>>]

\* Event(type=..., fqid=...) with the optional "fields" and "list_fields" keys;
\* an instance with no key stands for an event without "fields".  n is the
\* production number of the event within the request.
Event(type, fqid, fields, list_fields, n) ==
    [type |-> type, fqid |-> fqid, fields |-> fields, list_fields |-> list_fields, n |-> n]

WriteRequest(events, information, user_id, locked) ==
    [events |-> events, information |-> information, user_id |-> user_id,
     locked_fields |-> locked]

-----------------------------------------------------------------------------
(* merge_write_requests.  The loop variable user_id starts as None; the     *)
(* information dict of the result takes over the annotation list object of  *)
(* the first input that names an entity and extends that same object, so    *)
(* the fold also returns the inputs as they are after the call.             *)

InfoIndex(information, fqid) ==
    IF \E i \in 1..Len(information) : information[i].fqid = fqid
    THEN CHOOSE i \in 1..Len(information) : information[i].fqid = fqid
    ELSE 0

\* information.get(fqid): the annotation list, or <<>> for a missing key
InfoOf(information, fqid) ==
    IF InfoIndex(information, fqid) = 0 THEN <<>>
    ELSE information[InfoIndex(information, fqid)].texts

\* a merge in which the annotations of a later write request replace the
\* earlier ones of the entity
MergeInformationItemReplacing(acc, k, item) ==
    LET i == InfoIndex(acc.information, item.fqid) IN
    IF i = 0
    THEN [acc EXCEPT !.information =
              Append(@, [fqid |-> item.fqid, texts |-> item.texts, owner |-> k])]
    ELSE [acc EXCEPT !.information[i].texts = item.texts, !.information[i].owner = k]

\* lines 481-485 for one (fqid, info_text) item of element k
MergeInformationItem(acc, k, item) ==
    LET i == InfoIndex(acc.information, item.fqid) IN
    IF i = 0
    THEN [acc EXCEPT !.information =
              Append(@, [fqid |-> item.fqid, texts |-> item.texts, owner |-> k])]
    ELSE LET owner == acc.information[i].owner
             joined == acc.information[i].texts \o item.texts
             j == InfoIndex(acc.inputs[owner].information, item.fqid)
         IN [acc EXCEPT !.information[i].texts = joined,
                        !.inputs[owner].information[j].texts = joined]

RECURSIVE MergeInformation(_, _, _)
MergeInformation(acc, k, items) ==
    IF items = <<>> THEN acc
    ELSE MergeInformation(MergeInformationItem(acc, k, Head(items)), k, Tail(items))

\* a user check that looks only at the write requests that carry events
MergeUserIdOfEvents(acc, element) ==
    IF element.events = <<>> THEN acc
    ELSE IF acc.user_id = Null
         THEN [acc EXCEPT !.user_id = element.user_id]
         ELSE IF acc.user_id # element.user_id
              THEN [acc EXCEPT !.error = "ValueError"]
              ELSE acc

\* lines 486-492
MergeUserId(acc, element) ==
    IF acc.user_id = Null
    THEN [acc EXCEPT !.user_id = element.user_id]
    ELSE IF acc.user_id # element.user_id
         THEN [acc EXCEPT !.error = "ValueError"]
         ELSE acc

\* the loop body, lines 479-492, for element k
MergeElement(acc, k, element) ==
    MergeUserId(
        MergeInformation([acc EXCEPT !.events = @ \o element.events], k,
                         element.information),
        element)

RECURSIVE MergeLoop(_, _, _)
MergeLoop(acc, write_requests, k) ==
    IF k > Len(write_requests) \/ acc.error # "" THEN acc
    ELSE MergeLoop(MergeElement(acc, k, write_requests[k]), write_requests, k + 1)

StripOwner(information) ==
    [i \in 1..Len(information) |->
        [fqid |-> information[i].fqid, texts |-> information[i].texts]]

\* a merge that answers with an empty write request instead of None
MergeResultEmptyRequest(acc) ==
    IF acc.error # ""
    THEN [status |-> acc.error, wr |-> <<>>, inputs |-> acc.inputs]
    ELSE [status |-> "ok",
          wr |-> <<WriteRequest(acc.events, StripOwner(acc.information), acc.user_id, {})>>,
          inputs |-> acc.inputs]

\* result: status "ok" with wr = <<>> (None) or <<write request>>, or status
\* "ValueError"; inputs are the input write requests after the call
MergeResult(acc) ==
    IF acc.error # ""
    THEN [status |-> acc.error, wr |-> <<>>, inputs |-> acc.inputs]
    ELSE IF acc.events # <<>>
         THEN IF acc.user_id = Null
              THEN [status |-> "ValueError", wr |-> <<>>, inputs |-> acc.inputs]
              ELSE [status |-> "ok",
                    wr |-> <<WriteRequest(acc.events, StripOwner(acc.information),
                                          acc.user_id, {})>>,
                    inputs |-> acc.inputs]
         ELSE [status |-> "ok", wr |-> <<>>, inputs |-> acc.inputs]

merge_write_requests(write_requests) ==
    MergeResult(MergeLoop([events |-> <<>>, information |-> <<>>, user_id |-> Null,
                           error |-> "", inputs |-> write_requests],
                          write_requests, 1))

-----------------------------------------------------------------------------
(* Action.process_write_requests *)

EventsOfType(events, type) == SelectSeq(events, LAMBDA e : e.type = type)

RECURSIVE Reverse(_)
Reverse(s) == IF s = <<>> THEN <<>> ELSE Append(Reverse(Tail(s)), Head(s))

\* a sort that inserts each event at the front of the list of its type
SortEventsNewestFirst(events) ==
    Reverse(EventsOfType(events, Create)) \o Reverse(EventsOfType(events, Update))
        \o Reverse(EventsOfType(events, Delete))

\* lines 274-279: events_by_type, then create - update - delete
SortEvents(events) ==
    EventsOfType(events, Create) \o EventsOfType(events, Update)
        \o EventsOfType(events, Delete)

\* a merging step that resets the registry without handing it to the write request
process_write_requests_unlocked(write_requests, registry) ==
    LET m == merge_write_requests(write_requests) IN
    IF m.status # "ok"
    THEN [status |-> m.status, wr |-> <<>>, write_requests |-> m.inputs,
          registry |-> registry, drained |-> FALSE]
    ELSE IF m.wr # <<>>
         THEN [status |-> "ok",
               wr |-> <<[m.wr[1] EXCEPT !.events = SortEvents(@)]>>,
               write_requests |-> m.inputs, registry |-> {}, drained |-> TRUE]
         ELSE [status |-> "ok", wr |-> <<>>, write_requests |-> m.inputs,
               registry |-> registry, drained |-> FALSE]

\* result: the optional write request, the accumulated list after the merge,
\* the registry after the call and whether the registry was read and reset
process_write_requests(write_requests, registry) ==
    LET m == merge_write_requests(write_requests) IN
    IF m.status # "ok"
    THEN [status |-> m.status, wr |-> <<>>, write_requests |-> m.inputs,
          registry |-> registry, drained |-> FALSE]
    ELSE IF m.wr # <<>>
         THEN [status |-> "ok",
               wr |-> <<[m.wr[1] EXCEPT !.events = SortEvents(@),
                                        !.locked_fields = registry]>>,
               write_requests |-> m.inputs, registry |-> {}, drained |-> TRUE]
         ELSE [status |-> "ok", wr |-> <<>>, write_requests |-> m.inputs,
               registry |-> registry, drained |-> FALSE]

-----------------------------------------------------------------------------
(* Action.validate_required_fields.  fdict keeps, per entity in order of    *)
(* first occurrence, the folded type and fields; alias is the index of the  *)
(* event whose "fields" dict the entry holds (0 for the fresh {} that       *)
(* event.get("fields", {}) returns for an event without the key).           *)

\* the required fields of a collection's model, in declaration order
RequiredFieldsOf(collection) ==
    CASE collection = "tag" -> <<"name", "meeting_id">>
      [] collection = "topic" -> <<"name">>
      [] OTHER -> <<>>

FdictIndex(fdict, fqid) ==
    IF \E i \in 1..Len(fdict) : fdict[i].fqid = fqid
    THEN CHOOSE i \in 1..Len(fdict) : fdict[i].fqid = fqid
    ELSE 0

\* an update of a dict that keeps the value of a key it has already
DictUpdateKeepsFirst(fields, other) ==
    [f \in Fields |-> IF fields[f] # Absent THEN fields[f] ELSE other[f]]

\* dict.update
DictUpdate(fields, other) ==
    [f \in Fields |-> IF other[f] # Absent THEN other[f] ELSE fields[f]]

\* lines 301-304: the first event of an entity
FoldFirst(st, k) ==
    LET event == st.events[k] IN
    [st EXCEPT !.fdict = Append(@, [fqid |-> event.fqid, type |-> event.type,
                                    fields |-> event.fields,
                                    alias |-> IF Keys(event.fields) = {} THEN 0 ELSE k])]

\* a fold that keeps the type of the first event of the entity
FoldAgainKeepsType(st, k, i) ==
    LET event == st.events[k] IN
    IF event.type = Delete
    THEN st
    ELSE LET updated == DictUpdate(st.fdict[i].fields, event.fields)
             a == st.fdict[i].alias
         IN IF a = 0
            THEN [st EXCEPT !.fdict[i].fields = updated]
            ELSE [st EXCEPT !.fdict[i].fields = updated, !.events[a].fields = updated]

\* lines 296-299: a further event of an entity
FoldAgain(st, k, i) ==
    LET event == st.events[k] IN
    IF event.type = Delete
    THEN [st EXCEPT !.fdict[i].type = Delete]
    ELSE LET updated == DictUpdate(st.fdict[i].fields, event.fields)
             a == st.fdict[i].alias
         IN IF a = 0
            THEN [st EXCEPT !.fdict[i].fields = updated]
            ELSE [st EXCEPT !.fdict[i].fields = updated, !.events[a].fields = updated]

\* the body of the loop of lines 294-304 for event k
FoldEvent(st, k) ==
    LET i == FdictIndex(st.fdict, st.events[k].fqid) IN
    IF i # 0 THEN FoldAgain(st, k, i) ELSE FoldFirst(st, k)

\* lines 310-319
MissingOnCreate(collection, instance) ==
    SelectSeq(RequiredFieldsOf(collection),
              LAMBDA f : instance[f] = Absent \/ (instance[f] # Absent /\ Falsy(instance[f])))

\* an update check that also asks for the required fields that are left out
MissingOnUpdateAsCreate(collection, instance) ==
    SelectSeq(RequiredFieldsOf(collection),
              LAMBDA f : instance[f] = Absent \/ Falsy(instance[f]))

\* lines 321-327
MissingOnUpdate(collection, instance) ==
    SelectSeq(RequiredFieldsOf(collection),
              LAMBDA f : instance[f] # Absent /\ Falsy(instance[f]))

\* lines 307-328 for one entry of fdict
RequiredFieldsMissing(entry) ==
    IF entry.type = Create THEN MissingOnCreate(entry.fqid[1], entry.fields)
    ELSE IF entry.type = Update THEN MissingOnUpdate(entry.fqid[1], entry.fields)
    ELSE <<>>

RECURSIVE CheckEntries(_, _)
\* lines 306-330: raise for the first entry with missing fields
CheckEntries(fdict, i) ==
    IF i > Len(fdict) THEN [status |-> "ok", fqid |-> <<>>, type |-> "", fields |-> <<>>]
    ELSE IF RequiredFieldsMissing(fdict[i]) # <<>>
         THEN [status |-> "RequiredFieldsException", fqid |-> fdict[i].fqid,
               type |-> fdict[i].type, fields |-> RequiredFieldsMissing(fdict[i])]
         ELSE CheckEntries(fdict, i + 1)

-----------------------------------------------------------------------------
(* The actions of the registry that the model runs, and their schemas *)

DeleteAllSpeakers == "list_of_speakers.delete_all_speakers"

TagCreate == "tag.create"

TopicCreate == "topic.create"

SpeakerCreate == "speaker.create"

ActionNames == {DeleteAllSpeakers, TagCreate, TopicCreate, SpeakerCreate}

Users == {1, 2}

\* required and optional properties of the action's schema
Schema(name) ==
    CASE name = DeleteAllSpeakers -> [required |-> {"id"}, optional |-> {}]
      [] name = TagCreate -> [required |-> {"name", "meeting_id"}, optional |-> {}]
      [] name = TopicCreate -> [required |-> {"name", "meeting_id"}, optional |-> {}]
      [] name = SpeakerCreate -> [required |-> {"list_of_speakers_id", "user_id"}, optional |-> {}]

\* a validator that lets undeclared properties pass
SchemaValidRequiredOnly(name, instance) ==
    Schema(name).required \subseteq Keys(instance)

\* type(self).schema_validator(instance) does not raise
SchemaValid(name, instance) ==
    /\ Schema(name).required \subseteq Keys(instance)
    /\ Keys(instance) \subseteq Schema(name).required \cup Schema(name).optional

\* hasattr(self.get_updated_instances, "_native")
IsNative(name) == name \notin {DeleteAllSpeakers, SpeakerCreate}

\* the action runs other actions from its update_instance
RunsOtherActions(name) == name = TopicCreate

PayloadElements(name) ==
    CASE name = DeleteAllSpeakers ->
             {Inst1("id", 1), Inst1("id", 2), Inst1("id", 3), Inst1("id", 4), EmptyInstance}
      [] name = TagCreate ->
             {Inst2("name", 5, "meeting_id", 1), Inst2("name", 5, "meeting_id", 2),
              Inst1("name", 5),
              [Inst2("name", 5, "meeting_id", 1) EXCEPT !["wrong_field"] = 9]}
      [] name = TopicCreate ->
             {Inst2("name", 7, "meeting_id", 1), EmptyInstance}
      [] name = SpeakerCreate ->
             {Inst2("user_id", 1, "list_of_speakers_id", 2),
              Inst2("user_id", 3, "list_of_speakers_id", 1),
              Inst2("user_id", 3, "list_of_speakers_id", 2),
              Inst1("wrong_field", 9)}

Payloads(name) == SeqsUpTo(PayloadElements(name), MaxPayload)

-----------------------------------------------------------------------------
(* The datastore: persisted models, id reservation, lock registry *)

ListIds == {1, 2, 3}

\* an entry of a model map: the speaker_ids of a list of speakers
ListModel(has, ids) == [has_speaker_ids |-> has, speaker_ids |-> ids]

\* the users of the meeting
UserIds == {1, 2, 3}

\* a speaker model: its user, its list of speakers, its weight and the time
\* it began to talk (Null while it waits)
SpeakerModel(id, user_id, list_of_speakers_id, weight, begin_time) ==
    [id |-> id, user_id |-> user_id, list_of_speakers_id |-> list_of_speakers_id,
     weight |-> weight, begin_time |-> begin_time]

InitModels ==
    [los |-> [l \in ListIds |->
                 CASE l = 1 -> ListModel(TRUE, <<1, 2>>)
                   [] l = 2 -> ListModel(TRUE, <<>>)
                   [] l = 3 -> ListModel(FALSE, <<>>)],
     speakers |-> {1, 2},
     speaker_data |-> {SpeakerModel(1, 3, 1, 1, Null), SpeakerModel(2, 3, 1, 2, Null)},
     user_speaker_ids |-> [u \in UserIds |-> IF u = 3 THEN <<1, 2>> ELSE <<>>],
     meetings |-> {1},
     tags |-> {},
     topics |-> {},
     tag_ids |-> <<>>,
     topic_ids |-> <<>>]

Exists(db, fqid) ==
    CASE fqid[1] = "list_of_speakers" -> fqid[2] \in ListIds
      [] fqid[1] = "speaker" -> fqid[2] \in db.speakers
      [] fqid[1] = "meeting" -> fqid[2] \in db.meetings
      [] fqid[1] = "user" -> fqid[2] \in UserIds
      [] OTHER -> FALSE

\* the registry after a read of fqid's fields with lock_result=True at datastore
\* position pos; a key that is registered keeps its position
RegisterLock(registry, fqid, fields, pos) ==
    registry \cup {[key |-> <<fqid[1], fqid[2], f>>, position |-> pos] :
                      f \in {g \in fields :
                                ~\E e \in registry : e.key = <<fqid[1], fqid[2], g>>}}

RegisterKeys(registry, keys, pos) ==
    registry \cup {[key |-> k, position |-> pos] :
                      k \in {j \in keys : ~\E e \in registry : e.key = j}}

LockedKeys(registry) == {e.key : e \in registry}

-----------------------------------------------------------------------------
(* Action.fetch_model for a list of speakers with mapped_fields speaker_ids *)

ContextIndex(additional, fqid) ==
    IF \E i \in 1..Len(additional) : additional[i].fqid = fqid
    THEN CHOOSE i \in 1..Len(additional) : additional[i].fqid = fqid
    ELSE 0

\* Datastore.get(fqid, ["speaker_ids"], lock_result): a missing model is an
\* error of the datastore; a locking read registers the fields it returns
DatastoreGet(db, registry, pos, fqid, lock_result) ==
    IF ~Exists(db, fqid)
    THEN [status |-> "DatastoreException", model |-> ListModel(FALSE, <<>>),
          registry |-> registry]
    ELSE [status |-> "ok", model |-> db.los[fqid[2]],
          registry |-> IF lock_result
                       THEN RegisterLock(registry, fqid, {"speaker_ids"}, pos)
                       ELSE registry]

\* a fetch that goes to the datastore whatever the additional relation
\* models hold
fetch_model_from_datastore(additional, db, registry, pos, fqid) ==
    [status |-> DatastoreGet(db, registry, pos, fqid, TRUE).status,
     model |-> DatastoreGet(db, registry, pos, fqid, TRUE).model,
     registry |-> DatastoreGet(db, registry, pos, fqid, TRUE).registry,
     read |-> TRUE]

\* result: status, the model, the registry afterwards, whether the datastore
\* was read
fetch_model(additional, db, registry, pos, fqid) ==
    IF ContextIndex(additional, fqid) # 0
    THEN [status |-> "ok", model |-> additional[ContextIndex(additional, fqid)].model,
          registry |-> registry, read |-> FALSE]
    ELSE [status |-> DatastoreGet(db, registry, pos, fqid, TRUE).status,
          model |-> DatastoreGet(db, registry, pos, fqid, TRUE).model,
          registry |-> DatastoreGet(db, registry, pos, fqid, TRUE).registry,
          read |-> TRUE]

\* lines 27-30 of delete_all_speakers.py: the instances one list contributes
SpeakerInstances(list_of_speakers) ==
    IF list_of_speakers.has_speaker_ids /\ list_of_speakers.speaker_ids # <<>>
    THEN [i \in 1..Len(list_of_speakers.speaker_ids) |->
             Inst1("id", list_of_speakers.speaker_ids[i])]
    ELSE <<>>

-----------------------------------------------------------------------------
(* Relation handling and the write requests of one instance *)

\* Relation Update Elements: type "add" / "remove" with a value, or
\* "list_update" with the ids to add and to remove
FieldUpdateElement(type, value) == [type |-> type, value |-> value, add |-> <<>>, remove |-> <<>>]

ListUpdateElement(add, remove) == [type |-> "list_update", value |-> Null, add |-> add, remove |-> remove]

\* the list of speakers that holds a speaker, 0 if there is none
ListOfSpeaker(db, speaker_id) ==
    IF \E l \in ListIds : \E i \in 1..Len(db.los[l].speaker_ids) :
           db.los[l].speaker_ids[i] = speaker_id
    THEN CHOOSE l \in ListIds : \E i \in 1..Len(db.los[l].speaker_ids) :
             db.los[l].speaker_ids[i] = speaker_id
    ELSE 0

\* RelationManager.get_relation_updates: the reverse relations of the
\* instance, in the order of the mapping; status is the ActionException for
\* a relation target that cannot be resolved; locks are the fields it reads
get_relation_updates(name, instance, db) ==
    CASE name = DeleteAllSpeakers ->
             IF ListOfSpeaker(db, instance["id"]) = 0
             THEN [status |-> "ok", updates |-> <<>>, locks |-> {}]
             ELSE [status |-> "ok",
                   updates |-> <<[fqfield |-> <<"list_of_speakers",
                                               ListOfSpeaker(db, instance["id"]),
                                               "speaker_ids">>,
                                  data |-> ListUpdateElement(<<>>, <<instance["id"]>>)]>>,
                   locks |-> {<<"speaker", instance["id"], "list_of_speakers_id">>}]
      [] name \in {TagCreate, TopicCreate} ->
             IF instance["meeting_id"] \notin db.meetings
             THEN [status |-> "ActionException", updates |-> <<>>, locks |-> {}]
             ELSE [status |-> "ok",
                   updates |-> <<[fqfield |-> <<"meeting", instance["meeting_id"],
                                               IF name = TagCreate THEN "tag_ids"
                                               ELSE "topic_ids">>,
                                  data |-> ListUpdateElement(<<instance["id"]>>, <<>>)]>>,
                   locks |-> {<<"meeting", instance["meeting_id"],
                                IF name = TagCreate THEN "tag_ids" ELSE "topic_ids">>}]
      [] name = SpeakerCreate ->
             IF instance["list_of_speakers_id"] \notin ListIds
                   \/ instance["user_id"] \notin UserIds
             THEN [status |-> "ActionException", updates |-> <<>>, locks |-> {}]
             ELSE [status |-> "ok",
                   updates |-> <<[fqfield |-> <<"list_of_speakers",
                                               instance["list_of_speakers_id"],
                                               "speaker_ids">>,
                                  data |-> ListUpdateElement(<<instance["id"]>>, <<>>)],
                                 [fqfield |-> <<"user", instance["user_id"], "speaker_$1_ids">>,
                                  data |-> ListUpdateElement(<<instance["id"]>>, <<>>)]>>,
                   locks |-> {<<"list_of_speakers", instance["list_of_speakers_id"],
                                "speaker_ids">>,
                              <<"user", instance["user_id"], "speaker_$1_ids">>}]

\* Action.build_write_request; n is the production number of the event
build_write_request(type, fqid, information, fields, list_fields, user_id, n) ==
    WriteRequest(<<Event(type, fqid, fields, list_fields, n)>>,
                 <<[fqid |-> fqid, texts |-> <<information>>]>>,
                 user_id, {})

\* lines 196-213: info_text, fields and list_fields of one relation update
RelationInfoText(fqfield, data) ==
    CASE data.type = "add" -> <<"Object attached to", fqfield[1]>>
      [] data.type = "remove" -> <<"Object attachment to", fqfield[1], "reset">>
      [] OTHER -> <<"Object updated">>

RelationFields(fqfield, data) ==
    IF data.type \in {"add", "remove"}
    THEN [EmptyInstance EXCEPT ![fqfield[3]] = data.value]
    ELSE EmptyInstance

\* list fields that carry both sides, empty or not
RelationListFieldsBothSides(fqfield, data) ==
    IF data.type = "list_update"
    THEN [add |-> <<[field |-> fqfield[3], ids |-> data.add]>>,
          remove |-> <<[field |-> fqfield[3], ids |-> data.remove]>>]
    ELSE NoList

RelationListFields(fqfield, data) ==
    IF data.type = "list_update"
    THEN [add |-> IF data.add # <<>> THEN <<[field |-> fqfield[3], ids |-> data.add]>>
                  ELSE <<>>,
          remove |-> IF data.remove # <<>>
                     THEN <<[field |-> fqfield[3], ids |-> data.remove]>>
                     ELSE <<>>]
    ELSE NoList

\* a relation handling that stops after the first relation update
handle_relation_updates_first(updates, user_id, n) ==
    [i \in 1..(IF updates = <<>> THEN 0 ELSE 1) |->
        build_write_request(Update,
                            <<updates[i].fqfield[1], updates[i].fqfield[2]>>,
                            RelationInfoText(updates[i].fqfield, updates[i].data),
                            RelationFields(updates[i].fqfield, updates[i].data),
                            RelationListFields(updates[i].fqfield, updates[i].data),
                            user_id, n + i)]

\* Action.handle_relation_updates: one write request per relation update
handle_relation_updates(updates, user_id, n) ==
    [i \in 1..Len(updates) |->
        build_write_request(Update,
                            <<updates[i].fqfield[1], updates[i].fqfield[2]>>,
                            RelationInfoText(updates[i].fqfield, updates[i].data),
                            RelationFields(updates[i].fqfield, updates[i].data),
                            RelationListFields(updates[i].fqfield, updates[i].data),
                            user_id, n + i)]

\* create_write_requests of the generic create and delete actions
create_write_requests(name, instance, user_id, n) ==
    CASE name = DeleteAllSpeakers ->
             <<build_write_request(Delete, <<"speaker", instance["id"]>>,
                                   <<"Object deleted">>, EmptyInstance, NoList,
                                   user_id, n + 1)>>
      [] name = TagCreate ->
             <<build_write_request(Create, <<"tag", instance["id"]>>,
                                   <<"Object created">>, instance, NoList,
                                   user_id, n + 1)>>
      [] name = TopicCreate ->
             <<build_write_request(Create, <<"topic", instance["id"]>>,
                                   <<"Object created">>, instance, NoList,
                                   user_id, n + 1)>>
      [] name = SpeakerCreate ->
             <<build_write_request(Create, <<"speaker", instance["id"]>>,
                                   <<"Object created">>, instance, NoList,
                                   user_id, n + 1)>>

\* Action.create_action_result_element: None by default; the generic create
\* action answers with the id of the new object
create_action_result_element(name, instance) ==
    IF name \in {TagCreate, TopicCreate, SpeakerCreate} THEN instance["id"] ELSE Null

-----------------------------------------------------------------------------
(* Action.perform as a state machine.  A frame is one perform call on one   *)
(* action object; stack[1] is the object the request handler called, the    *)
(* frames above it are the actions run through execute_other_action.        *)

\* Action.__init__ followed by the entry of perform (lines 107-108)
NewFrame(name, payload, user_id, internal, additional, write_requests, call) ==
    [name |-> name, payload |-> payload, user_id |-> user_id, internal |-> internal,
     additional_relation_models |-> additional,
     write_requests |-> write_requests,
     index |-> 0, pc |-> "Validating",
     gen_started |-> FALSE, gen_pos |-> 0, gen_buf |-> <<>>,
     cur |-> <<>>, yielded |-> <<>>, processed |-> <<>>, results |-> <<>>,
     out |-> <<>>, error |-> "", call |-> call,
     before |-> [models |-> models, written |-> Len(written),
                 events |-> SumSeq([i \in 1..Len(write_requests) |->
                                       Len(write_requests[i].events)])]]

Depth == Len(stack)

Top == stack[Depth]

SetTop(frame) == [stack EXCEPT ![Depth] = frame]

Log(call, step) == Append(trace, <<call, step>>)

\* a perform that catches the exception and returns what it has accumulated
RaiseReturningPartial(stk, error, call) ==
    <<[stk[1] EXCEPT !.pc = "Done", !.error = error, !.cur = <<>>,
                     !.out = merge_write_requests(stk[1].write_requests).wr]>>

\* an exception leaves perform and every caller: the frames of the nested
\* actions are gone, the top-level object keeps what it had accumulated
Raise(stk, error, call) ==
    <<[stk[1] EXCEPT !.pc = "Raised", !.error = error, !.cur = <<>>, !.out = <<>>,
                     !.results = IF Len(stk) = 1 THEN @ ELSE <<>>]>>

\* the request handler constructs an action and calls perform
StartRequest ==
    /\ stack = <<>>
    /\ \E name \in ActionNames, user_id \in Users, internal \in BOOLEAN :
         \E payload \in Payloads(name) :
           stack' = <<NewFrame(name, payload, user_id, internal, <<>>, <<>>, 1)>>
    /\ requests' = 1
    /\ calls' = 1
    /\ stamp' = 0
    /\ trace' = <<>>
    /\ reads' = {}
    /\ produced' = <<>>
    /\ UNCHANGED <<models, locked_fields, written, next_id, pending, mw, vr, vrel, hru, fm, nctx, ag>>

\* a further request on the same datastore, after the last one is finished:
\* on a new action object, or on the object of the last request
StartNextRequest ==
    /\ stack # <<>>
    /\ Depth = 1
    /\ Top.pc \in {"Finished", "Raised"}
    /\ requests < MaxRequests
    /\ \E name \in ActionNames, user_id \in Users, internal \in BOOLEAN, again \in BOOLEAN :
         \E payload \in Payloads(name) :
           /\ again => stack[1].name = name
           /\ stack' = <<NewFrame(name, payload, user_id, internal, <<>>,
                                  IF again THEN stack[1].write_requests ELSE <<>>, 1)>>
    /\ requests' = requests + 1
    /\ calls' = 1
    /\ stamp' = 0
    /\ trace' = <<>>
    /\ reads' = {}
    /\ produced' = <<>>
    /\ UNCHANGED <<models, locked_fields, written, next_id, pending, mw, vr, vrel, hru, fm, nctx, ag>>

\* lines 109-111: validate_payload_element for the element under the cursor
ValidateElement ==
    /\ stack # <<>>
    /\ Top.pc = "Validating"
    /\ Top.index < Len(Top.payload)
    /\ IF SchemaValid(Top.name, Top.payload[Top.index + 1])
       THEN /\ stack' = SetTop([Top EXCEPT !.index = @ + 1])
            /\ trace' = Log(Top.call, "validate")
       ELSE /\ stack' = Raise(stack, "ActionException", Top.call)
            /\ trace' = Log(Top.call, "schema_error")
    /\ UNCHANGED <<models, locked_fields, written, next_id, calls, stamp, requests, reads, pending, mw, vr, vrel, hru, fm, nctx, ag, produced>>

\* a perform that asks the permission service for internal calls too
ConsultsPermissionAlways(internal) == TRUE

\* line 115: the permission service is asked unless the call is internal
ConsultsPermission(internal) == ~internal

\* lines 112-116 and check_permissions: the cursor is reset, then the
\* permission service is asked unless the call is internal
CheckPermissions ==
    /\ stack # <<>>
    /\ Top.pc = "Validating"
    /\ Top.index = Len(Top.payload)
    /\ IF ~ConsultsPermission(Top.internal)
       THEN /\ stack' = SetTop([Top EXCEPT !.index = -1, !.pc = "Transforming"])
            /\ trace' = trace
       ELSE \E is_allowed \in BOOLEAN :
              /\ trace' = Log(Top.call, "permission")
              /\ stack' = IF is_allowed
                          THEN SetTop([Top EXCEPT !.index = -1, !.pc = "Transforming"])
                          ELSE Raise(SetTop([Top EXCEPT !.index = -1]),
                                     "PermissionDenied", Top.call)
    /\ UNCHANGED <<models, locked_fields, written, next_id, calls, stamp, requests, reads, pending, mw, vr, vrel, hru, fm, nctx, ag, produced>>

\* line 118: get_updated_instances(payload) makes the generator; its body
\* runs when the loop of line 120 asks for the next instance
Transform ==
    /\ stack # <<>>
    /\ Top.pc = "Transforming"
    /\ stack' = SetTop([Top EXCEPT !.pc = "NextInstance"])
    /\ UNCHANGED <<models, locked_fields, written, next_id, trace, calls, stamp, requests, reads, pending, mw, vr, vrel, hru, fm, nctx, ag, produced>>

\* a loop that advances the cursor for every instance, whatever yields it
YieldedCounting(frame, instance) ==
    [frame EXCEPT !.cur = <<instance>>, !.yielded = Append(@, instance),
                  !.index = @ + 1,
                  !.gen_started = TRUE, !.pc = "Update"]

\* the frame after the generator yielded instance; lines 124-125
Yielded(frame, instance) ==
    [frame EXCEPT !.cur = <<instance>>, !.yielded = Append(@, instance),
                  !.index = IF IsNative(frame.name) THEN @ + 1 ELSE @,
                  !.gen_started = TRUE, !.pc = "Update"]

\* line 120 with the default get_updated_instances: yield from payload
NextNative ==
    /\ stack # <<>>
    /\ Top.pc = "NextInstance"
    /\ IsNative(Top.name)
    /\ stack' = IF Top.gen_pos < Len(Top.payload)
                THEN SetTop([Yielded(Top, Top.payload[Top.gen_pos + 1])
                                EXCEPT !.gen_pos = @ + 1])
                ELSE SetTop([Top EXCEPT !.gen_started = TRUE, !.pc = "Merging"])
    /\ trace' = IF Top.gen_started THEN trace ELSE Log(Top.call, "transform")
    /\ UNCHANGED <<models, locked_fields, written, next_id, calls, stamp, requests, reads, pending, mw, vr, vrel, hru, fm, nctx, ag, produced>>

\* line 120 with the generator of delete_all_speakers: the instances of the
\* list fetched last are yielded one by one, then the next list is fetched
NextDeleteAllSpeakers ==
    /\ stack # <<>>
    /\ Top.pc = "NextInstance"
    /\ Top.name = DeleteAllSpeakers
    /\ IF Top.gen_buf # <<>>
       THEN /\ stack' = SetTop([Yielded(Top, Head(Top.gen_buf)) EXCEPT !.gen_buf = Tail(@)])
            /\ trace' = trace
            /\ UNCHANGED <<locked_fields, reads>>
       ELSE IF Top.gen_pos < Len(Top.payload)
       THEN LET f == fetch_model(Top.additional_relation_models, models, locked_fields,
                                 Len(written),
                                 <<"list_of_speakers", Top.payload[Top.gen_pos + 1]["id"]>>)
                t1 == IF Top.gen_started THEN trace ELSE Log(Top.call, "transform")
                t2 == IF f.read THEN Append(t1, <<Top.call, "fetch">>) ELSE t1
                insts == SpeakerInstances(f.model)
                g == [Top EXCEPT !.gen_started = TRUE, !.gen_pos = @ + 1]
            IN /\ trace' = t2
               /\ locked_fields' = f.registry
               /\ reads' = IF f.read /\ f.status = "ok"
                           THEN reads \cup {<<"list_of_speakers",
                                               Top.payload[Top.gen_pos + 1]["id"], "speaker_ids">>}
                           ELSE reads
               /\ stack' = IF f.status # "ok" THEN Raise(stack, f.status, Top.call)
                           ELSE IF insts = <<>> THEN SetTop(g)
                           ELSE SetTop([Yielded(g, Head(insts)) EXCEPT !.gen_buf = Tail(insts)])
       ELSE /\ stack' = SetTop([Top EXCEPT !.gen_started = TRUE, !.pc = "Merging"])
            /\ trace' = IF Top.gen_started THEN trace ELSE Log(Top.call, "transform")
            /\ UNCHANGED <<locked_fields, reads>>
    /\ UNCHANGED <<models, written, next_id, calls, stamp, requests, pending, mw, vr, vrel, hru, fm, nctx, ag, produced>>

\* line 120 with the generator of speaker.create: a payload of more than one
\* element is rejected, the one element is yielded as it is
NextSpeakerCreate ==
    /\ stack # <<>>
    /\ Top.pc = "NextInstance"
    /\ Top.name = SpeakerCreate
    /\ stack' = IF Len(Top.payload) > 1
                THEN Raise(stack, "ActionException", Top.call)
                ELSE IF Top.gen_pos < Len(Top.payload)
                THEN SetTop([Yielded(Top, Top.payload[Top.gen_pos + 1])
                                EXCEPT !.gen_pos = @ + 1])
                ELSE SetTop([Top EXCEPT !.gen_started = TRUE, !.pc = "Merging"])
    /\ trace' = IF Top.gen_started THEN trace ELSE Log(Top.call, "transform")
    /\ UNCHANGED <<models, locked_fields, written, next_id, calls, stamp, requests, reads, pending, mw, vr, vrel, hru, fm, nctx, ag, produced>>

\* dict merge {**a, **b}: the entries of b replace or follow those of a
RECURSIVE DictMerge(_, _)
DictMerge(a, b) ==
    IF b = <<>> THEN a
    ELSE LET i == ContextIndex(a, Head(b).fqid) IN
         DictMerge(IF i = 0 THEN Append(a, Head(b)) ELSE [a EXCEPT ![i] = Head(b)],
                   Tail(b))

\* datastore.additional_relation_models
DatastoreContext == <<>>

\* a merge in which the caller's model replaces the supplied one
NestedContextCallerWins(datastore_context, own, supplied) ==
    DictMerge(DictMerge(datastore_context, supplied), own)

\* lines 456-460: the additional relation models of the action that is run
NestedContext(datastore_context, own, supplied) ==
    DictMerge(DictMerge(datastore_context, own), supplied)

\* the dict display of lines 456-460 builds a new dict: the caller's own
\* additional relation models are what they were
CallerContextAfter(own, supplied) == own

\* the dependent actions the model lets an action run: class, payload and the
\* additional relation models handed to execute_other_action
NestedCalls ==
    {[name |-> DeleteAllSpeakers, payload |-> <<Inst1("id", 1)>>, additional |-> <<>>],
     [name |-> DeleteAllSpeakers, payload |-> <<Inst1("id", 2)>>, additional |-> <<>>],
     [name |-> DeleteAllSpeakers, payload |-> <<Inst1("id", 1)>>,
      additional |-> <<[fqid |-> <<"list_of_speakers", 1>>, model |-> ListModel(TRUE, <<2>>)]>>],
     [name |-> DeleteAllSpeakers, payload |-> <<EmptyInstance>>, additional |-> <<>>],
     [name |-> TagCreate, payload |-> <<Inst2("name", 5, "meeting_id", 1)>>, additional |-> <<>>],
     [name |-> TagCreate, payload |-> <<Inst2("name", 5, "meeting_id", 2)>>, additional |-> <<>>],
     [name |-> TopicCreate, payload |-> <<Inst2("name", 7, "meeting_id", 1)>>, additional |-> <<>>]}

\* base_update_instance of the generic actions: a create action reserves the
\* id of the new object with datastore.reserve_id
IsCreate(name) == name \in {TagCreate, TopicCreate, SpeakerCreate}

Created(name) ==
    CASE name = TagCreate -> "tag"
      [] name = TopicCreate -> "topic"
      [] name = SpeakerCreate -> "speaker"

reserve_id(ids, collection) ==
    [id |-> ids[collection], ids |-> [ids EXCEPT ![collection] = @ + 1]]

base_update_instance(name, instance, ids) ==
    IF IsCreate(name)
    THEN [instance EXCEPT !["id"] = reserve_id(ids, Created(name)).id]
    ELSE instance

AfterUpdate(name, ids) ==
    IF IsCreate(name) THEN reserve_id(ids, Created(name)).ids ELSE ids

\* the user has a speaker on the list of speakers
OnList(db, user_id, list_of_speakers_id) ==
    \E r \in db.speaker_data :
        r.user_id = user_id /\ r.list_of_speakers_id = list_of_speakers_id

\* the highest weight among the waiting speakers of the list, 0 if there is
\* none
MaxWeight(db, list_of_speakers_id) ==
    LET W == {r.weight : r \in {x \in db.speaker_data :
                                   /\ x.list_of_speakers_id = list_of_speakers_id
                                   /\ x.begin_time = Null}}
    IN IF W = {} THEN 0 ELSE CHOOSE w \in W : \A v \in W : v <= w

\* Action.update_instance returns the instance; speaker.create rejects a user
\* who is on the list already and puts the new speaker at the end of the list
update_instance(name, instance, db) ==
    IF name = SpeakerCreate
    THEN IF OnList(db, instance["user_id"], instance["list_of_speakers_id"])
         THEN [status |-> "ActionException", instance |-> instance]
         ELSE [status |-> "ok",
               instance |-> [instance EXCEPT
                                !["weight"] = MaxWeight(db, instance["list_of_speakers_id"]) + 1]]
    ELSE [status |-> "ok", instance |-> instance]

\* line 127 for an action that runs no other action
UpdateInstance ==
    /\ stack # <<>>
    /\ Top.pc = "Update"
    /\ ~RunsOtherActions(Top.name)
    /\ LET r == update_instance(Top.name,
                                base_update_instance(Top.name, Top.cur[1], next_id), models)
       IN stack' = IF r.status # "ok"
                   THEN Raise(stack, r.status, Top.call)
                   ELSE SetTop([Top EXCEPT !.cur = <<r.instance>>, !.pc = "Emit"])
    /\ next_id' = AfterUpdate(Top.name, next_id)
    /\ trace' = Log(Top.call, "instance")
    /\ UNCHANGED <<models, locked_fields, written, calls, stamp, requests, reads, pending, mw, vr, vrel, hru, fm, nctx, ag, produced>>

\* a dependent action that is performed for another user than the caller's
CalledFrameOtherUser(caller, ActionClass, payload, additional, call) ==
    NewFrame(ActionClass, payload, CHOOSE u \in Users : u # caller.user_id, TRUE,
             NestedContext(DatastoreContext, caller.additional_relation_models, additional),
             <<>>, call)

\* execute_other_action, lines 451-464: the dependent action is constructed
\* with the merged relation models and performed with the caller's user id
\* and internal=True
CalledFrame(caller, ActionClass, payload, additional, call) ==
    NewFrame(ActionClass, payload, caller.user_id, TRUE,
             NestedContext(DatastoreContext, caller.additional_relation_models, additional),
             <<>>, call)

\* line 127 for an action whose update_instance runs another action
ExecuteOtherAction ==
    /\ stack # <<>>
    /\ Top.pc = "Update"
    /\ RunsOtherActions(Top.name)
    /\ Depth <= MaxDepth
    /\ \E nc \in NestedCalls :
         /\ RunsOtherActions(nc.name) => Depth < MaxDepth
         /\ stack' = Append(
                SetTop([Top EXCEPT !.cur = <<base_update_instance(Top.name, Top.cur[1], next_id)>>,
                                   !.pc = "InNested"]),
                CalledFrame(Top, nc.name, nc.payload, nc.additional, calls + 1))
    /\ next_id' = AfterUpdate(Top.name, next_id)
    /\ calls' = calls + 1
    /\ trace' = Log(Top.call, "instance")
    /\ UNCHANGED <<models, locked_fields, written, stamp, requests, reads, pending, mw, vr, vrel, hru, fm, nctx, ag, produced>>

\* a caller that puts the write request of the dependent action in front of
\* its list
AppendedInFront(write_requests, out) ==
    IF out # <<>> THEN <<out[1]>> \o write_requests ELSE write_requests

\* lines 465-467: the write request of the dependent action, if there is
\* one, is appended to the caller's list
Appended(write_requests, out) ==
    IF out # <<>> THEN Append(write_requests, out[1]) ELSE write_requests

ReturnToCaller ==
    /\ Depth > 1
    /\ Top.pc = "Done"
    /\ stack' = [SubSeq(stack, 1, Depth - 1) EXCEPT ![Depth - 1] =
                    [@ EXCEPT !.write_requests = Appended(@, Top.out), !.pc = "Emit"]]
    /\ trace' = Log(Top.call, "return")
    /\ UNCHANGED <<models, locked_fields, written, next_id, calls, stamp, requests, reads, pending, mw, vr, vrel, hru, fm, nctx, ag, produced>>

\* a result list that leaves out the None results
AppendResultIfAny(results, result) ==
    IF result = Null THEN results ELSE Append(results, result)

\* line 136
AppendResult(results, result) == Append(results, result)

\* lines 129-136: relation updates, the write requests of the instance and
\* its result element
Emit ==
    /\ stack # <<>>
    /\ Top.pc = "Emit"
    /\ LET ru == get_relation_updates(Top.name, Top.cur[1], models)
           rel == handle_relation_updates(ru.updates, Top.user_id, stamp)
           own == create_write_requests(Top.name, Top.cur[1], Top.user_id, stamp + Len(rel))
       IN IF ru.status # "ok"
          THEN /\ stack' = Raise(stack, ru.status, Top.call)
               /\ trace' = trace
               /\ UNCHANGED <<locked_fields, stamp, reads, produced>>
          ELSE /\ stack' = SetTop([Top EXCEPT
                                !.write_requests = (@ \o rel) \o own,
                                !.results = AppendResult(@, create_action_result_element(Top.name, Top.cur[1])),
                                !.processed = Append(@, Top.cur[1]),
                                !.cur = <<>>,
                                !.pc = "NextInstance"])
               /\ locked_fields' = RegisterKeys(locked_fields, ru.locks, Len(written))
               /\ reads' = reads \cup ru.locks
               /\ produced' = (produced \o rel) \o own
               /\ stamp' = stamp + Len(rel) + Len(own)
               /\ trace' = IF ru.locks # {}
                           THEN Append(Log(Top.call, "read"), <<Top.call, "event">>)
                           ELSE Log(Top.call, "event")
    /\ UNCHANGED <<models, written, next_id, calls, requests, pending, mw, vr, vrel, hru, fm, nctx, ag>>

\* line 138: process_write_requests, then perform returns
ProcessWriteRequests ==
    /\ stack # <<>>
    /\ Top.pc = "Merging"
    /\ LET r == process_write_requests(Top.write_requests, locked_fields) IN
         /\ locked_fields' = r.registry
         /\ stack' = IF r.status # "ok"
                     THEN Raise(SetTop([Top EXCEPT !.write_requests = r.write_requests]),
                                r.status, Top.call)
                     ELSE SetTop([Top EXCEPT !.write_requests = r.write_requests,
                                             !.out = r.wr, !.pc = "Done"])
         /\ trace' = IF r.drained
                     THEN Append(Log(Top.call, "merge"), <<Top.call, "drain">>)
                     ELSE Log(Top.call, "merge")
    /\ UNCHANGED <<models, written, next_id, calls, stamp, requests, reads, pending, mw, vr, vrel, hru, fm, nctx, ag, produced>>

-----------------------------------------------------------------------------
(* The request handler hands the write request of a successful perform to   *)
(* the datastore, which applies its events.                                 *)

\* list_fields of an Update event: ids are appended to or taken out of the list
ApplyList(ids, event) ==
    LET added == IF event.list_fields.add # <<>>
                 THEN ids \o event.list_fields.add[1].ids ELSE ids
    IN IF event.list_fields.remove # <<>>
       THEN SelectSeq(added, LAMBDA x : \A i \in 1..Len(event.list_fields.remove[1].ids) :
                                           x # event.list_fields.remove[1].ids[i])
       ELSE added

ListFieldOf(event) ==
    IF event.list_fields.add # <<>> THEN event.list_fields.add[1].field
    ELSE IF event.list_fields.remove # <<>> THEN event.list_fields.remove[1].field
    ELSE ""

ApplyEvent(db, event) ==
    CASE event.type = Create /\ event.fqid[1] = "tag" ->
             [db EXCEPT !.tags = @ \cup {event.fqid[2]}]
      [] event.type = Create /\ event.fqid[1] = "topic" ->
             [db EXCEPT !.topics = @ \cup {event.fqid[2]}]
      [] event.type = Create /\ event.fqid[1] = "speaker" ->
             [db EXCEPT !.speakers = @ \cup {event.fqid[2]},
                        !.speaker_data = @ \cup {SpeakerModel(event.fqid[2],
                                                      event.fields["user_id"],
                                                      event.fields["list_of_speakers_id"],
                                                      event.fields["weight"], Null)}]
      [] event.type = Delete /\ event.fqid[1] = "speaker" ->
             [db EXCEPT !.speakers = @ \ {event.fqid[2]},
                        !.speaker_data = {r \in @ : r.id # event.fqid[2]}]
      [] event.type = Update /\ event.fqid[1] = "list_of_speakers"
            /\ ListFieldOf(event) = "speaker_ids" /\ event.fqid[2] \in ListIds ->
             [db EXCEPT !.los[event.fqid[2]] =
                            ListModel(TRUE, ApplyList(@.speaker_ids, event))]
      [] event.type = Update /\ event.fqid[1] = "user"
            /\ ListFieldOf(event) = "speaker_$1_ids" /\ event.fqid[2] \in UserIds ->
             [db EXCEPT !.user_speaker_ids[event.fqid[2]] = ApplyList(@, event)]
      [] event.type = Update /\ event.fqid[1] = "meeting" /\ ListFieldOf(event) = "tag_ids" ->
             [db EXCEPT !.tag_ids = ApplyList(@, event)]
      [] event.type = Update /\ event.fqid[1] = "meeting" /\ ListFieldOf(event) = "topic_ids" ->
             [db EXCEPT !.topic_ids = ApplyList(@, event)]
      [] OTHER -> db

RECURSIVE ApplyEvents(_, _)
ApplyEvents(db, events) ==
    IF events = <<>> THEN db
    ELSE ApplyEvents(ApplyEvent(db, Head(events)), Tail(events))

\* the event changes the field that the key names
Touches(event, key) ==
    /\ event.fqid = <<key[1], key[2]>>
    /\ \/ event.type \in {Create, Delete}
       \/ ListFieldOf(event) = key[3]
       \/ key[3] \in Fields /\ event.fields[key[3]] # Absent

\* the position of the last write that changed the field, 0 if there is none
LastChanged(log, key) ==
    LET P == {j \in 1..Len(log) : \E i \in 1..Len(log[j].events) :
                                     Touches(log[j].events[i], key)}
    IN IF P = {} THEN 0 ELSE CHOOSE j \in P : \A k \in P : k <= j

\* a locked field was changed after the position at which it was read
ModelLocked(log, write_request) ==
    \E l \in write_request.locked_fields : LastChanged(log, l.key) > l.position

\* the datastore writes the events of a write request unless one of its
\* locked fields was changed in the meantime
DatastoreWrite(db, log, write_request) ==
    IF ModelLocked(log, write_request)
    THEN [status |-> "DatastoreException", db |-> db, log |-> log]
    ELSE [status |-> "ok", db |-> ApplyEvents(db, write_request.events),
          log |-> Append(log, write_request)]

Commit ==
    /\ Depth = 1
    /\ Top.pc = "Done"
    /\ IF Top.out # <<>>
       THEN LET w == DatastoreWrite(models, written, Top.out[1]) IN
            /\ written' = w.log
            /\ models' = w.db
            /\ stack' = SetTop([Top EXCEPT !.pc = IF w.status = "ok" THEN "Finished"
                                                  ELSE "Rejected"])
       ELSE /\ UNCHANGED <<written, models>>
            /\ stack' = SetTop([Top EXCEPT !.pc = "Finished"])
    /\ UNCHANGED <<locked_fields, next_id, trace, calls, stamp, requests, reads, pending, mw, vr, vrel, hru, fm, nctx, ag, produced>>

-----------------------------------------------------------------------------
(* Specification of the engine *)

\* the ids the datastore hands out next: speakers 1 and 2 exist
InitIds == [c \in {"tag", "topic", "speaker"} |-> IF c = "speaker" THEN 3 ELSE 1]

IdleHarness == [input |-> <<>>, done |-> FALSE, result |-> <<>>]

Init ==
    /\ stack = <<>>
    /\ models = InitModels
    /\ locked_fields = {}
    /\ written = <<>>
    /\ next_id = InitIds
    /\ trace = <<>>
    /\ calls = 0
    /\ stamp = 0
    /\ requests = 0
    /\ reads = {}
    /\ pending = <<>>
    /\ produced = <<>>
    /\ mw = IdleHarness
    /\ vr = IdleHarness
    /\ vrel = IdleHarness
    /\ hru = IdleHarness
    /\ fm = IdleHarness
    /\ nctx = IdleHarness
    /\ ag = IdleHarness

Next ==
    \/ StartRequest
    \/ ValidateElement
    \/ CheckPermissions
    \/ Transform
    \/ NextNative
    \/ NextDeleteAllSpeakers
    \/ NextSpeakerCreate
    \/ UpdateInstance
    \/ ExecuteOtherAction
    \/ ReturnToCaller
    \/ Emit
    \/ ProcessWriteRequests
    \/ Commit

Spec == Init /\ [][Next]_vars

\* the engine on two datastores: the one of Init, and one whose lists 1 and 2
\* hold one speaker each, of users 2 and 3, who is talking
TalkerModels ==
    [InitModels EXCEPT
        !.los = [l \in ListIds |->
                    CASE l = 1 -> ListModel(TRUE, <<1>>)
                      [] l = 2 -> ListModel(TRUE, <<2>>)
                      [] l = 3 -> ListModel(FALSE, <<>>)],
        !.speaker_data = {SpeakerModel(1, 2, 1, 5, 100000), SpeakerModel(2, 3, 2, 5, 100000)},
        !.user_speaker_ids = [u \in UserIds |-> CASE u = 2 -> <<1>>
                                                   [] u = 3 -> <<2>>
                                                   [] OTHER -> <<>>]]

InitSpeakers ==
    /\ stack = <<>>
    /\ models \in {InitModels, TalkerModels}
    /\ locked_fields = {}
    /\ written = <<>>
    /\ next_id = InitIds
    /\ trace = <<>>
    /\ calls = 0
    /\ stamp = 0
    /\ requests = 0
    /\ reads = {}
    /\ pending = <<>>
    /\ produced = <<>>
    /\ mw = IdleHarness
    /\ vr = IdleHarness
    /\ vrel = IdleHarness
    /\ hru = IdleHarness
    /\ fm = IdleHarness
    /\ nctx = IdleHarness
    /\ ag = IdleHarness

SpecSpeakers == InitSpeakers /\ [][Next]_vars

\* several requests, one after the other, on the same datastore
NextSession == Next \/ StartNextRequest

SpecSession == Init /\ [][NextSession]_vars

-----------------------------------------------------------------------------
(* Independent requests that add speakers: the request handler performs     *)
(* the action of each request and holds its write request; the held write   *)
(* requests reach the datastore in any order.                               *)

ConcurrentPayloads ==
    {<<Inst2("user_id", 1, "list_of_speakers_id", 2)>>,
     <<Inst2("user_id", 2, "list_of_speakers_id", 2)>>,
     <<Inst2("user_id", 1, "list_of_speakers_id", 3)>>}

StartConcurrentRequest ==
    /\ stack = <<>> \/ (Depth = 1 /\ Top.pc \in {"Held", "Raised"})
    /\ requests < MaxRequests
    /\ \E payload \in ConcurrentPayloads, user_id \in Users :
         stack' = <<NewFrame(SpeakerCreate, payload, user_id, FALSE, <<>>, <<>>, 1)>>
    /\ requests' = requests + 1
    /\ calls' = 1
    /\ stamp' = 0
    /\ trace' = <<>>
    /\ reads' = {}
    /\ produced' = <<>>
    /\ UNCHANGED <<models, locked_fields, written, next_id, pending, mw, vr, vrel, hru, fm, nctx, ag>>

\* perform has returned: the handler keeps the write request for the write
Hold ==
    /\ Depth = 1
    /\ Top.pc = "Done"
    /\ pending' = Append(pending, [request |-> requests, out |-> Top.out, reads |-> reads,
                                   held |-> Len(written), status |-> "waiting", at |-> 0])
    /\ stack' = SetTop([Top EXCEPT !.pc = "Held"])
    /\ UNCHANGED <<models, locked_fields, written, next_id, trace, calls, stamp, requests, reads, mw, vr, vrel, hru, fm, nctx, ag, produced>>

\* a held write request reaches the datastore
WritePending ==
    \E i \in 1..Len(pending) :
        /\ pending[i].status = "waiting"
        /\ pending[i].out # <<>>
        /\ LET w == DatastoreWrite(models, written, pending[i].out[1]) IN
             /\ written' = w.log
             /\ models' = w.db
             /\ pending' = [pending EXCEPT ![i].status = IF w.status = "ok" THEN "committed"
                                                        ELSE "rejected",
                                           ![i].at = IF w.status = "ok" THEN Len(w.log) ELSE 0]
        /\ UNCHANGED <<stack, locked_fields, next_id, trace, calls, stamp, requests, reads, mw, vr, vrel, hru, fm, nctx, ag, produced>>

NextConcurrent ==
    \/ StartConcurrentRequest
    \/ ValidateElement
    \/ CheckPermissions
    \/ Transform
    \/ NextSpeakerCreate
    \/ UpdateInstance
    \/ Emit
    \/ ProcessWriteRequests
    \/ Hold
    \/ WritePending

SpecConcurrent == Init /\ [][NextConcurrent]_vars

-----------------------------------------------------------------------------
(* merge_write_requests on its own: every sequence of up to MaxMerge write  *)
(* requests of two users, with and without events                           *)

MergeEvent(type, fqid) == Event(type, fqid, EmptyInstance, NoList, 0)

MergeInputs ==
    UNION {{WriteRequest(<<>>, <<>>, u, {}),
            WriteRequest(<<MergeEvent(Update, <<"tag", 1>>)>>,
                         <<[fqid |-> <<"tag", 1>>, texts |-> <<<<"Object updated">>>>]>>, u, {}),
            WriteRequest(<<MergeEvent(Create, <<"tag", 2>>)>>,
                         <<[fqid |-> <<"tag", 2>>, texts |-> <<<<"Object created">>>>]>>, u, {}),
            WriteRequest(<<MergeEvent(Create, <<"tag", 1>>), MergeEvent(Delete, <<"tag", 2>>)>>,
                         <<[fqid |-> <<"tag", 1>>,
                            texts |-> <<<<"Object created">>, <<"Object attached to", "meeting">>>>],
                           [fqid |-> <<"tag", 2>>, texts |-> <<<<"Object deleted">>>>]>>, u, {})}
           : u \in Users}

EngineIdle ==
    /\ stack = <<>>
    /\ models = InitModels
    /\ locked_fields = {}
    /\ written = <<>>
    /\ next_id = InitIds
    /\ trace = <<>>
    /\ calls = 0
    /\ stamp = 0
    /\ requests = 0
    /\ reads = {}
    /\ pending = <<>>
    /\ produced = <<>>

InitMerge ==
    /\ EngineIdle
    /\ mw \in {[input |-> i, done |-> FALSE, result |-> <<>>] :
                  i \in SeqsUpTo(MergeInputs, MaxMerge)}
    /\ vr = IdleHarness
    /\ vrel = IdleHarness
    /\ hru = IdleHarness
    /\ fm = IdleHarness
    /\ nctx = IdleHarness
    /\ ag = IdleHarness

CallMerge ==
    /\ ~mw.done
    /\ mw' = [mw EXCEPT !.done = TRUE, !.result = merge_write_requests(mw.input)]
    /\ UNCHANGED <<stack, models, locked_fields, written, next_id, trace, calls, stamp, requests, reads, pending, vr, vrel, hru, fm, nctx, ag, produced>>

SpecMerge == InitMerge /\ [][CallMerge]_vars

-----------------------------------------------------------------------------
(* validate_required_fields on its own: every kind-sorted sequence of up to *)
(* MaxEvents events on two tags                                             *)

RequiredFieldMaps ==
    {EmptyInstance,
     Inst2("name", 5, "meeting_id", 1),
     Inst2("name", 0, "meeting_id", 1),
     Inst2("name", 5, "meeting_id", Null),
     Inst1("name", 5)}

RequiredEvents ==
    {Event(t, <<"tag", i>>, f, NoList, 0) :
        t \in {Create, Update}, i \in {1, 2}, f \in RequiredFieldMaps}
    \cup {Event(Delete, <<"tag", i>>, EmptyInstance, NoList, 0) : i \in {1, 2}}

TypeRank(type) == CASE type = Create -> 1 [] type = Update -> 2 [] OTHER -> 3

KindSorted(events) ==
    \A i, j \in 1..Len(events) : i < j => TypeRank(events[i].type) <= TypeRank(events[j].type)

InitRequired ==
    /\ EngineIdle
    /\ mw = IdleHarness
    /\ vrel = IdleHarness
    /\ hru = IdleHarness
    /\ fm = IdleHarness
    /\ nctx = IdleHarness
    /\ ag = IdleHarness
    /\ vr \in {[input |-> e, events |-> e, fdict |-> <<>>, pos |-> 1, done |-> FALSE,
                result |-> <<>>] :
                  e \in {x \in SeqsUpTo(RequiredEvents, MaxEvents) : KindSorted(x)}}

\* one turn of the loop of lines 294-304
FoldNext ==
    /\ ~vr.done
    /\ vr.pos <= Len(vr.events)
    /\ LET st == FoldEvent([events |-> vr.events, fdict |-> vr.fdict], vr.pos) IN
         vr' = [vr EXCEPT !.events = st.events, !.fdict = st.fdict, !.pos = @ + 1]
    /\ UNCHANGED <<stack, models, locked_fields, written, next_id, trace, calls, stamp, requests, reads, pending, mw, vrel, hru, fm, nctx, ag, produced>>

\* the loop of lines 306-330
CheckRequired ==
    /\ ~vr.done
    /\ vr.pos > Len(vr.events)
    /\ vr' = [vr EXCEPT !.done = TRUE, !.result = CheckEntries(vr.fdict, 1)]
    /\ UNCHANGED <<stack, models, locked_fields, written, next_id, trace, calls, stamp, requests, reads, pending, mw, vrel, hru, fm, nctx, ag, produced>>

NextRequired == FoldNext \/ CheckRequired

SpecRequired == InitRequired /\ [][NextRequired]_vars

-----------------------------------------------------------------------------
(* Action.validate_relation_fields on its own, for a model with a single    *)
(* relation, a relation without equal fields, a list relation and a         *)
(* template relation.  An instance holds the values of its equal fields     *)
(* and of its relation fields; db holds the equal fields of the models the  *)
(* relations point to.                                                      *)

MaxRefs == 2

RelationField(own_field_name, to, equal_fields, template) ==
    [own_field_name |-> own_field_name, to |-> to, equal_fields |-> equal_fields,
     template |-> template]

\* self.model.get_relation_fields()
ModelRelationFields ==
    <<RelationField("category_id", "motion_category", <<"meeting_id">>, FALSE),
      RelationField("origin_id", "motion", <<>>, FALSE),
      RelationField("tag_ids", "tag", <<"meeting_id">>, FALSE),
      RelationField("group_$_ids", "group", <<"meeting_id">>, TRUE)>>

\* the keys an instance can have for its relations, in the order of the dict
InstanceRelationKeys == <<"category_id", "origin_id", "tag_ids", "group_$1_ids">>

NoValue == [kind |-> "absent", ids |-> <<>>]

NoneValue == [kind |-> "none", ids |-> <<>>]

IdValue(id) == [kind |-> "id", ids |-> <<id>>]

ListValue(ids) == [kind |-> "list", ids |-> ids]

\* field.try_get_replacement(instance_field)
Replacement(field, instance_field) ==
    IF field.own_field_name = "group_$_ids" /\ instance_field = "group_$1_ids"
    THEN "1" ELSE ""

\* Action.get_structured_fields_in_instance: the names of the instance that
\* the template field matches
get_structured_fields_in_instance(field, instance) ==
    SelectSeq(InstanceRelationKeys,
              LAMBDA k : instance.rel[k].kind # "absent" /\ Replacement(field, k) # "")

\* a conversion that keeps only the first id of the value
get_field_value_as_fqid_list_first(field, value) ==
    LET ids == IF value.kind = "list" THEN value.ids
               ELSE IF value.kind = "none" THEN <<>> ELSE value.ids
    IN [i \in 1..(IF ids = <<>> THEN 0 ELSE 1) |-> <<field.to, ids[i]>>]

\* Action.get_field_value_as_fqid_list for a relation to one collection: a
\* value that is not a list becomes [] if it is None and [value] otherwise
get_field_value_as_fqid_list(field, value) ==
    LET ids == IF value.kind = "list" THEN value.ids
               ELSE IF value.kind = "none" THEN <<>> ELSE value.ids
    IN [i \in 1..Len(ids) |-> <<field.to, ids[i]>>]

\* dict.get of an equal field: None for a key that is missing
EqualGet(values, name) == IF values[name] = Absent THEN Null ELSE values[name]

NoMismatch == [status |-> "ok", relation |-> "", fqid |-> <<>>, name |-> ""]

\* Action.check_equal_fields: the first related model and equal field that
\* differ from the instance raise the exception
check_equal_fields(field, instance, instance_field, db) ==
    LET fqids == get_field_value_as_fqid_list(field, instance.rel[instance_field])
        bad == {ij \in (1..Len(fqids)) \X (1..Len(field.equal_fields)) :
                   EqualGet(instance.eq, field.equal_fields[ij[2]])
                       # EqualGet(db[fqids[ij[1]]], field.equal_fields[ij[2]])}
    IN IF bad = {} THEN NoMismatch
       ELSE LET first == CHOOSE ij \in bad : \A kl \in bad :
                             ij[1] < kl[1] \/ (ij[1] = kl[1] /\ ij[2] <= kl[2])
            IN [status |-> "ActionException", relation |-> field.own_field_name,
                fqid |-> fqids[first[1]], name |-> field.equal_fields[first[2]]]

\* lines 348-358: the names of the instance that are checked for the field
CheckedNames(field, instance) ==
    IF field.own_field_name \in DOMAIN instance.rel
          /\ instance.rel[field.own_field_name].kind # "absent"
    THEN <<field.own_field_name>>
    ELSE IF field.template THEN get_structured_fields_in_instance(field, instance)
    ELSE <<>>

RECURSIVE CheckNames(_, _, _, _)
\* lines 359-360
CheckNames(field, instance, names, db) ==
    IF names = <<>> THEN NoMismatch
    ELSE IF check_equal_fields(field, instance, Head(names), db).status # "ok"
         THEN check_equal_fields(field, instance, Head(names), db)
         ELSE CheckNames(field, instance, Tail(names), db)

RECURSIVE ValidateRelationFieldsFrom(_, _, _)
\* the loop of line 346 from field k on
ValidateRelationFieldsFrom(k, instance, db) ==
    IF k > Len(ModelRelationFields) THEN NoMismatch
    ELSE LET field == ModelRelationFields[k]
             r == IF field.equal_fields # <<>>
                  THEN CheckNames(field, instance, CheckedNames(field, instance), db)
                  ELSE NoMismatch
         IN IF r.status # "ok" THEN r ELSE ValidateRelationFieldsFrom(k + 1, instance, db)

validate_relation_fields(instance, db) == ValidateRelationFieldsFrom(1, instance, db)

RelationTargets ==
    {<<"motion_category", 1>>, <<"motion", 1>>, <<"group", 1>>}
        \cup {<<"tag", i>> : i \in 1..MaxRefs}

RelationModels ==
    {d \in [RelationTargets -> [{"meeting_id"} -> {Absent, 1, 2}]] :
        \A t \in RelationTargets : t[1] # "motion_category" => d[t]["meeting_id"] # Absent}

RelationInstances ==
    {[eq |-> [n \in {"meeting_id"} |-> m],
      rel |-> [k \in {"category_id", "origin_id", "tag_ids", "group_$1_ids"} |->
                  CASE k = "category_id" -> c
                    [] k = "origin_id" -> o
                    [] k = "tag_ids" -> t
                    [] k = "group_$1_ids" -> g]] :
        m \in {Absent, Null, 1, 2},
        c \in {NoValue, NoneValue, IdValue(1)},
        o \in {NoValue, IdValue(1)},
        t \in {NoValue, NoneValue} \cup {ListValue(l) : l \in SeqsUpTo(1..MaxRefs, MaxRefs)},
        g \in {NoValue, ListValue(<<1>>)}}

InitRelation ==
    /\ EngineIdle
    /\ mw = IdleHarness
    /\ vr = IdleHarness
    /\ vrel \in {[instance |-> i, db |-> d, done |-> FALSE, result |-> NoMismatch] :
                    i \in RelationInstances, d \in RelationModels}
    /\ hru = IdleHarness
    /\ fm = IdleHarness
    /\ nctx = IdleHarness
    /\ ag = IdleHarness

CallValidateRelation ==
    /\ ~vrel.done
    /\ vrel' = [vrel EXCEPT !.done = TRUE,
                            !.result = validate_relation_fields(vrel.instance, vrel.db)]
    /\ UNCHANGED <<stack, models, locked_fields, written, next_id, trace, calls, stamp, requests, reads, pending, mw, vr, hru, fm, nctx, ag, produced>>

SpecRelation == InitRelation /\ [][CallValidateRelation]_vars

-----------------------------------------------------------------------------
(* handle_relation_updates on its own: every mapping of up to MaxUpdates    *)
(* fully-qualified fields to relation update elements                       *)

MaxUpdates == 3

\* the fields of single-valued and of list relations that are updated
ScalarFqfields == {<<"speaker", 1, "list_of_speakers_id">>, <<"speaker", 2, "user_id">>}

ListFqfields == {<<"list_of_speakers", 1, "speaker_ids">>, <<"meeting", 1, "tag_ids">>}

\* what the relation manager answers for one field
RelationUpdateElements ==
    {[fqfield |-> f, data |-> d] :
        f \in ScalarFqfields,
        d \in {FieldUpdateElement("add", 1), FieldUpdateElement("add", 2),
               FieldUpdateElement("remove", Null)}}
    \cup
    {[fqfield |-> f, data |-> ListUpdateElement(a, r)] :
        f \in ListFqfields, a \in {<<>>, <<3>>}, r \in {<<>>, <<1>>, <<1, 2>>}}

\* the mapping is a dict: every fully-qualified field is there once
RelationUpdates ==
    {u \in SeqsUpTo(RelationUpdateElements, MaxUpdates) :
        \A i, j \in 1..Len(u) : u[i].fqfield = u[j].fqfield => i = j}

InitRelationUpdates ==
    /\ EngineIdle
    /\ mw = IdleHarness
    /\ vr = IdleHarness
    /\ vrel = IdleHarness
    /\ hru \in {[input |-> u, user_id |-> w, done |-> FALSE, result |-> <<>>] :
                   u \in RelationUpdates, w \in Users}
    /\ fm = IdleHarness
    /\ nctx = IdleHarness
    /\ ag = IdleHarness

CallHandleRelationUpdates ==
    /\ ~hru.done
    /\ hru' = [hru EXCEPT !.done = TRUE,
                          !.result = handle_relation_updates(hru.input, hru.user_id, 0)]
    /\ UNCHANGED <<stack, models, locked_fields, written, next_id, trace, calls, stamp, requests, reads, pending, mw, vr, vrel, fm, nctx, ag, produced>>

SpecRelationUpdates == InitRelationUpdates /\ [][CallHandleRelationUpdates]_vars

-----------------------------------------------------------------------------
(* fetch_model on its own, for any model and any mapped_fields: the         *)
(* additional relation models and the datastore are dicts from fqid to      *)
(* model, kept as sequences of entries with distinct fqids                  *)

MaxContext == 2

\* lock key of a read of the whole model
WholeModel == "*"

\* the model restricted to the mapped fields it has
Restrict(model, mapped_fields) ==
    [f \in Fields |-> IF \E i \in 1..Len(mapped_fields) : mapped_fields[i] = f
                      THEN model[f] ELSE Absent]

\* Datastore.get(fqid, mapped_fields, lock_result=lock_result)
DatastoreGetFields(store, registry, pos, fqid, mapped_fields, lock_result) ==
    IF ContextIndex(store, fqid) = 0
    THEN [status |-> "DatastoreException", model |-> EmptyInstance, registry |-> registry,
          read |-> TRUE, lock_result |-> lock_result]
    ELSE LET model == store[ContextIndex(store, fqid)].model
             result == IF mapped_fields = <<>> THEN model ELSE Restrict(model, mapped_fields)
         IN [status |-> "ok", model |-> result,
             registry |-> IF ~lock_result THEN registry
                          ELSE IF mapped_fields = <<>>
                               THEN RegisterLock(registry, fqid, {WholeModel}, pos)
                               ELSE RegisterLock(registry, fqid,
                                                 {mapped_fields[i] : i \in 1..Len(mapped_fields)},
                                                 pos),
             read |-> TRUE, lock_result |-> lock_result]

\* a fetch that hands out the additional model as it is, whatever is mapped
fetch_model_mapped_whole(additional, store, registry, pos, fqid, mapped_fields) ==
    IF ContextIndex(additional, fqid) # 0
    THEN [status |-> "ok", model |-> additional[ContextIndex(additional, fqid)].model,
          registry |-> registry, read |-> FALSE, lock_result |-> FALSE]
    ELSE DatastoreGetFields(store, registry, pos, fqid, mapped_fields, TRUE)

\* Action.fetch_model(fqid, mapped_fields)
fetch_model_mapped(additional, store, registry, pos, fqid, mapped_fields) ==
    IF ContextIndex(additional, fqid) # 0
    THEN LET additional_model == additional[ContextIndex(additional, fqid)].model IN
         [status |-> "ok",
          model |-> IF mapped_fields # <<>>
                    THEN [f \in Fields |->
                             IF \E i \in 1..Len(mapped_fields) : mapped_fields[i] = f
                             THEN Get(additional_model, f) ELSE Absent]
                    ELSE additional_model,
          registry |-> registry, read |-> FALSE, lock_result |-> FALSE]
    ELSE DatastoreGetFields(store, registry, pos, fqid, mapped_fields, TRUE)

FetchFqids == {<<"tag", 1>>, <<"tag", 2>>}

ModelMaps(modelset) ==
    {m \in SeqsUpTo([fqid : FetchFqids, model : modelset], MaxContext) :
        \A i, j \in 1..Len(m) : m[i].fqid = m[j].fqid => i = j}

AdditionalModels ==
    ModelMaps({EmptyInstance, Inst1("name", 5), Inst2("name", 5, "meeting_id", 1),
               Inst1("meeting_id", Null)})

StoredModels == ModelMaps({Inst1("name", 7), Inst2("name", 7, "meeting_id", 2)})

MappedFields ==
    {<<>>, <<"name">>, <<"meeting_id">>, <<"name", "meeting_id">>, <<"meeting_id", "name">>}

\* the registry before the call: empty, or with a field locked at position 0
FetchRegistries == {{}, {[key |-> <<"tag", 1, "name">>, position |-> 0]}}

InitFetch ==
    /\ EngineIdle
    /\ mw = IdleHarness
    /\ vr = IdleHarness
    /\ vrel = IdleHarness
    /\ hru = IdleHarness
    /\ fm \in {[additional |-> a, store |-> d, registry |-> r, fqid |-> q,
                mapped_fields |-> mf, done |-> FALSE, result |-> <<>>] :
                  a \in AdditionalModels, d \in StoredModels, r \in FetchRegistries,
                  q \in FetchFqids, mf \in MappedFields}
    /\ nctx = IdleHarness
    /\ ag = IdleHarness

CallFetchModel ==
    /\ ~fm.done
    /\ fm' = [fm EXCEPT !.done = TRUE,
                        !.result = fetch_model_mapped(fm.additional, fm.store, fm.registry, 1,
                                                      fm.fqid, fm.mapped_fields)]
    /\ UNCHANGED <<stack, models, locked_fields, written, next_id, trace, calls, stamp, requests, reads, pending, mw, vr, vrel, hru, nctx, ag, produced>>

SpecFetch == InitFetch /\ [][CallFetchModel]_vars

-----------------------------------------------------------------------------
(* The additional relation models that execute_other_action hands to the    *)
(* action it runs, for every three dicts over two fqids; the models of the  *)
(* datastore's dict, of the caller's and of the supplied one differ         *)

InitNestedContext ==
    /\ EngineIdle
    /\ mw = IdleHarness
    /\ vr = IdleHarness
    /\ vrel = IdleHarness
    /\ hru = IdleHarness
    /\ fm = IdleHarness
    /\ nctx \in {[datastore |-> d, own |-> o, supplied |-> a, own_after |-> o,
                  done |-> FALSE, result |-> <<>>] :
                    d \in ModelMaps({Inst1("name", 1), Inst1("name", 2)}),
                    o \in ModelMaps({Inst1("name", 3), Inst1("name", 4)}),
                    a \in ModelMaps({Inst1("name", 5), Inst1("name", 6)})}
    /\ ag = IdleHarness

CallNestedContext ==
    /\ ~nctx.done
    /\ nctx' = [nctx EXCEPT !.done = TRUE,
                            !.result = NestedContext(nctx.datastore, nctx.own, nctx.supplied),
                            !.own_after = CallerContextAfter(nctx.own, nctx.supplied)]
    /\ UNCHANGED <<stack, models, locked_fields, written, next_id, trace, calls, stamp, requests, reads, pending, mw, vr, vrel, hru, fm, ag, produced>>

SpecNestedContext == InitNestedContext /\ [][CallNestedContext]_vars

-----------------------------------------------------------------------------
(* agenda_item.create: get_updated_instances, which sets level, is_hidden   *)
(* and is_internal of every instance of the payload, on its own.  True and  *)
(* False are 1 and 0.                                                       *)

\* AgendaItem.AGENDA_ITEM, INTERNAL_ITEM, HIDDEN_ITEM
CommonItem == 1

InternalItem == 2

HiddenItem == 3

\* Datastore.get(fqid, mapped_fields) without lock_result: a missing model is
\* an error of the datastore
AgendaGet(db, parent_id) ==
    IF parent_id \in DOMAIN db
    THEN [status |-> "ok", model |-> db[parent_id]]
    ELSE [status |-> "DatastoreException", model |-> EmptyInstance]

\* parent.get(field, default)
GetOr(model, field, default) == IF model[field] = Absent THEN default ELSE model[field]

\* lines 52-60: the parent of the instance; without parent_id it is the
\* literal of line 53
ParentOf(instance, db) ==
    IF Get(instance, "parent_id") = Null
    THEN [status |-> "ok", model |-> Inst2("is_hidden", 0, "is_internal", 0)]
    ELSE AgendaGet(db, instance["parent_id"])

\* lines 54 and 60
AgendaLevel(instance, parent) ==
    IF Get(instance, "parent_id") = Null THEN 0 ELSE GetOr(parent, "level", 0) + 1

\* a flag that looks at the type of the instance only
AgendaFlagOfTypeOnly(instance, parent, item_type, flag) ==
    IF Get(instance, "type") = item_type THEN 1 ELSE 0

\* lines 61-66: instance.get("type") == item_type or parent.get(flag, False)
AgendaFlag(instance, parent, item_type, flag) ==
    IF Get(instance, "type") = item_type THEN 1 ELSE GetOr(parent, flag, 0)

\* the body of the loop of lines 51-66 for one instance
AgendaInstance(instance, parent) ==
    [instance EXCEPT !["level"] = AgendaLevel(instance, parent),
                     !["is_hidden"] = AgendaFlag(instance, parent, HiddenItem, "is_hidden"),
                     !["is_internal"] = AgendaFlag(instance, parent, InternalItem, "is_internal")]

\* AgendaItemCreate.get_updated_instances: the instances are changed in
\* place, one after the other, and the payload is returned; an error of the
\* datastore leaves the instances before the failing one changed
RECURSIVE AgendaLoop(_, _, _)
AgendaLoop(payload, k, db) ==
    IF k > Len(payload) THEN [status |-> "ok", payload |-> payload]
    ELSE LET p == ParentOf(payload[k], db) IN
         IF p.status # "ok" THEN [status |-> p.status, payload |-> payload]
         ELSE AgendaLoop([payload EXCEPT ![k] = AgendaInstance(payload[k], p.model)], k + 1, db)

agenda_get_updated_instances(payload, db) == AgendaLoop(payload, 1, db)

\* payload elements: with and without type and parent; agenda item 3 is not
\* in the datastore
AgendaElements ==
    {[[EmptyInstance EXCEPT !["id"] = 9] EXCEPT !["type"] = t, !["parent_id"] = q] :
        t \in {Absent, CommonItem, InternalItem, HiddenItem}, q \in {Absent, 1, 2, 3}}
    \cup {[EmptyInstance EXCEPT !["id"] = 9, !["parent_id"] = Null]}

\* the agenda items 1 and 2 of the datastore: item 2 is a hidden item of
\* level 1, item 1 is any item
AgendaStores ==
    {[x \in {1, 2} |->
        IF x = 2 THEN [EmptyInstance EXCEPT !["level"] = 1, !["is_hidden"] = 1,
                                            !["is_internal"] = 0]
        ELSE [EmptyInstance EXCEPT !["level"] = l, !["is_hidden"] = h, !["is_internal"] = n]] :
        l \in {Absent, 0, 2}, h \in {Absent, 1}, n \in {Absent, 0, 1}}

InitAgenda ==
    /\ EngineIdle
    /\ mw = IdleHarness
    /\ vr = IdleHarness
    /\ vrel = IdleHarness
    /\ hru = IdleHarness
    /\ fm = IdleHarness
    /\ nctx = IdleHarness
    /\ ag \in {[input |-> p, db |-> d, done |-> FALSE, result |-> <<>>] :
                  p \in SeqsUpTo(AgendaElements, MaxPayload), d \in AgendaStores}

CallAgendaUpdatedInstances ==
    /\ ~ag.done
    /\ ag' = [ag EXCEPT !.done = TRUE, !.result = agenda_get_updated_instances(ag.input, ag.db)]
    /\ UNCHANGED <<stack, models, locked_fields, written, next_id, trace, calls, stamp, requests, reads, pending, mw, vr, vrel, hru, fm, nctx, produced>>

SpecAgenda == InitAgenda /\ [][CallAgendaUpdatedInstances]_vars

-----------------------------------------------------------------------------
(* agenda_item.create as one request on a datastore that other requests     *)
(* write to: the reads of the parent item, the write request and its commit *)

MaxParentWrites == 2

\* the new agenda item
NewItem == 9

\* Datastore.get declares lock_result: bool = False
lock_result_default == FALSE

\* the registry after Datastore.get(fqid, mapped_fields, lock_result=...)
\* at datastore position pos: only a read that asks for the lock registers
\* the fields
RegistryAfterGet(registry, pos, fqid, mapped_fields, lock_result) ==
    IF lock_result THEN RegisterLock(registry, fqid, mapped_fields, pos) ELSE registry

\* lines 34-48 of create.py: the weight of the instance follows the parent's
agenda_update_instance(instance, db) ==
    IF Get(instance, "parent_id") = Null
    THEN [status |-> "ok", instance |-> instance]
    ELSE LET parent == AgendaGet(db, instance["parent_id"]) IN
         IF parent.status # "ok" THEN [status |-> parent.status, instance |-> instance]
         ELSE IF Get(parent.model, "weight") = Null
              THEN [status |-> "ok", instance |-> instance]
              ELSE [status |-> "ok",
                    instance |-> [instance EXCEPT !["weight"] = parent.model["weight"] + 1]]

\* the reverse relation of parent_id is child_ids of the parent: the
\* relation handling reads it with the lock and appends the new item
agenda_relation_updates(instance) ==
    IF Get(instance, "parent_id") = Null
    THEN [updates |-> <<>>, locks |-> {}]
    ELSE [updates |-> <<[fqfield |-> <<"agenda_item", instance["parent_id"], "child_ids">>,
                         data |-> ListUpdateElement(<<instance["id"]>>, <<>>)]>>,
          locks |-> {<<"agenda_item", instance["parent_id"], "child_ids">>}]

\* Action.create_write_requests of a create action
agenda_create_write_requests(instance, user_id, n) ==
    <<build_write_request(Create, <<"agenda_item", instance["id"]>>,
                          <<"Object created">>, instance, NoList, user_id, n + 1)>>

\* the fields of the parent that the create reads
ParentFieldNames == {"weight", "level", "is_hidden", "is_internal"}

ParentFieldValues(f) == IF f = "weight" THEN {5, 7} ELSE IF f = "level" THEN {0, 1} ELSE {0, 1}

\* the payload element: with and without type and parent; agenda item 3 is
\* not in the datastore
AgendaCreateElements ==
    {[EmptyInstance EXCEPT !["id"] = NewItem, !["type"] = t, !["parent_id"] = q] :
        t \in {Absent, CommonItem, HiddenItem}, q \in {Absent, 1, 2, 3}}

\* the agenda items 1 and 2 of the datastore
AgendaCreateStores ==
    {[x \in {1, 2} |->
        IF x = 2 THEN [EmptyInstance EXCEPT !["level"] = 1, !["is_hidden"] = 1,
                                            !["is_internal"] = 0, !["weight"] = 5]
        ELSE [EmptyInstance EXCEPT !["level"] = 0, !["is_hidden"] = h,
                                   !["is_internal"] = 0, !["weight"] = w]] :
        h \in {0, 1}, w \in {Absent, 5}}

\* the keys of the parent that a read of mapped_fields is about, with the
\* position of the datastore at the read
ParentReads(instance, mapped_fields, pos) ==
    IF Get(instance, "parent_id") = Null THEN {}
    ELSE {[key |-> <<"agenda_item", instance["parent_id"], f>>, position |-> pos] :
             f \in mapped_fields}

InitAgendaCreate ==
    /\ EngineIdle
    /\ mw = IdleHarness
    /\ vr = IdleHarness
    /\ vrel = IdleHarness
    /\ hru = IdleHarness
    /\ fm = IdleHarness
    /\ nctx = IdleHarness
    /\ ag \in {[pc |-> "Start", input |-> e, instance |-> e, db |-> d, log |-> <<>>,
                registry |-> {}, write_requests |-> <<>>, out |-> <<>>, parent_reads |-> {},
                writes |-> 0, error |-> ""] :
                  e \in AgendaCreateElements, d \in AgendaCreateStores}

\* line 118 of perform: get_updated_instances, lines 50-68 of create.py
AgendaCreateTransform ==
    /\ ag.pc = "Start"
    /\ LET r == agenda_get_updated_instances(<<ag.instance>>, ag.db)
           mapped_fields == {"is_hidden", "is_internal", "level"}
       IN IF r.status # "ok"
          THEN ag' = [ag EXCEPT !.pc = "Raised", !.error = r.status]
          ELSE ag' = [ag EXCEPT
                         !.pc = "Transformed",
                         !.instance = r.payload[1],
                         !.registry =
                             IF Get(ag.instance, "parent_id") = Null THEN @
                             ELSE RegistryAfterGet(@, Len(ag.log),
                                                   <<"agenda_item", ag.instance["parent_id"]>>,
                                                   mapped_fields, lock_result_default),
                         !.parent_reads = @ \cup ParentReads(ag.instance, mapped_fields,
                                                             Len(ag.log))]
    /\ UNCHANGED <<stack, models, locked_fields, written, next_id, trace, calls, stamp, requests, reads, pending, mw, vr, vrel, hru, fm, nctx, produced>>

\* lines 127-136 of perform for the instance: update_instance, the relation
\* updates and the write request of the instance
AgendaCreateInstance ==
    /\ ag.pc = "Transformed"
    /\ LET u == agenda_update_instance(ag.instance, ag.db)
           ru == agenda_relation_updates(u.instance)
           rel == handle_relation_updates(ru.updates, 1, 0)
           own == agenda_create_write_requests(u.instance, 1, Len(rel))
       IN IF u.status # "ok"
          THEN ag' = [ag EXCEPT !.pc = "Raised", !.error = u.status]
          ELSE ag' = [ag EXCEPT
                         !.pc = "Merging",
                         !.instance = u.instance,
                         !.registry =
                             RegisterKeys(
                                 IF Get(ag.instance, "parent_id") = Null THEN @
                                 ELSE RegistryAfterGet(@, Len(ag.log),
                                                       <<"agenda_item", ag.instance["parent_id"]>>,
                                                       {"weight"}, lock_result_default),
                                 ru.locks, Len(ag.log)),
                         !.parent_reads = @ \cup ParentReads(ag.instance, {"weight"}, Len(ag.log)),
                         !.write_requests = (@ \o rel) \o own]
    /\ UNCHANGED <<stack, models, locked_fields, written, next_id, trace, calls, stamp, requests, reads, pending, mw, vr, vrel, hru, fm, nctx, produced>>

\* line 138 of perform: process_write_requests
AgendaCreateProcess ==
    /\ ag.pc = "Merging"
    /\ LET r == process_write_requests(ag.write_requests, ag.registry) IN
         ag' = [ag EXCEPT !.pc = IF r.status = "ok" THEN "Done" ELSE "Raised",
                          !.error = IF r.status = "ok" THEN "" ELSE r.status,
                          !.write_requests = r.write_requests,
                          !.registry = r.registry,
                          !.out = r.wr]
    /\ UNCHANGED <<stack, models, locked_fields, written, next_id, trace, calls, stamp, requests, reads, pending, mw, vr, vrel, hru, fm, nctx, produced>>

\* the datastore with the new item written
AgendaWritten(db, instance) ==
    [x \in DOMAIN db \cup {instance["id"]} |-> IF x = instance["id"] THEN instance ELSE db[x]]

\* the request handler hands the write request to the datastore, which
\* rejects it if one of its locked fields was changed after it was read
AgendaCreateCommit ==
    /\ ag.pc = "Done"
    /\ ag.out # <<>>
    /\ IF ModelLocked(ag.log, ag.out[1])
       THEN ag' = [ag EXCEPT !.pc = "Rejected"]
       ELSE ag' = [ag EXCEPT !.pc = "Finished",
                             !.log = Append(@, ag.out[1]),
                             !.db = AgendaWritten(@, ag.instance)]
    /\ UNCHANGED <<stack, models, locked_fields, written, next_id, trace, calls, stamp, requests, reads, pending, mw, vr, vrel, hru, fm, nctx, produced>>

\* another request writes a field of an agenda item while the create is
\* under way
ParentWrite ==
    /\ ag.pc \in {"Start", "Transformed", "Merging", "Done"}
    /\ ag.writes < MaxParentWrites
    /\ \E q \in {1, 2}, f \in ParentFieldNames :
         \E v \in ParentFieldValues(f) :
           /\ v # ag.db[q][f]
           /\ ag' = [ag EXCEPT
                        !.writes = @ + 1,
                        !.db[q][f] = v,
                        !.log = Append(@, WriteRequest(<<Event(Update, <<"agenda_item", q>>,
                                                                Inst1(f, v), NoList, 0)>>,
                                                        <<>>, 2, {}))]
    /\ UNCHANGED <<stack, models, locked_fields, written, next_id, trace, calls, stamp, requests, reads, pending, mw, vr, vrel, hru, fm, nctx, produced>>

NextAgendaCreate ==
    \/ AgendaCreateTransform
    \/ AgendaCreateInstance
    \/ AgendaCreateProcess
    \/ AgendaCreateCommit
    \/ ParentWrite

SpecAgendaCreate == InitAgendaCreate /\ [][NextAgendaCreate]_vars

-----------------------------------------------------------------------------
(* Properties *)

StepsOf(call) == {trace[i][2] : i \in {j \in 1..Len(trace) : trace[j][1] = call}}

StepCount(call, step) == Cardinality({i \in 1..Len(trace) : trace[i] = <<call, step>>})

Frames == {stack[d] : d \in 1..Len(stack)}

\* the list of speakers a frame of delete_all_speakers gets for a list id
FetchedList(frame, id) ==
    IF ContextIndex(frame.additional_relation_models, <<"list_of_speakers", id>>) # 0
    THEN frame.additional_relation_models[
             ContextIndex(frame.additional_relation_models, <<"list_of_speakers", id>>)].model
    ELSE models.los[id]

\* what get_updated_instances yields for the payload of a frame
TransformedBatch(frame) ==
    IF frame.name # DeleteAllSpeakers THEN frame.payload
    ELSE Flatten([k \in 1..Len(frame.payload) |->
                     SpeakerInstances(FetchedList(frame, frame.payload[k]["id"]))])

\* C1: when perform has returned, there is one result per instance yielded by
\* get_updated_instances (the transformed batch), and the i-th result is the
\* result element of the i-th instance as it was processed.
C1_ResultPerInstance ==
    \A f \in Frames :
        f.pc = "Done" =>
            /\ f.yielded = TransformedBatch(f)
            /\ Len(f.results) = Len(f.yielded)
            /\ Len(f.processed) = Len(f.yielded)
            /\ \A i \in 1..Len(f.results) :
                 /\ \A k \in Keys(f.yielded[i]) : f.processed[i][k] = f.yielded[i][k]
                 /\ f.results[i] = IF IsCreate(f.name) THEN f.processed[i]["id"] ELSE Null

\* one list id in the payload, two instances and two results
C1_Witness ==
    /\ Depth = 1
    /\ Top.pc = "Done"
    /\ Top.name = DeleteAllSpeakers
    /\ Len(Top.payload) = 1
    /\ Len(Top.results) = 2

\* C2: the events of a write request returned by perform are ordered create,
\* update, delete, and events of one type keep the order in which they were
\* built, those of nested actions included.
C2_EventsKindSorted ==
    \A f \in Frames :
        (f.pc = "Done" /\ f.out # <<>>) =>
            LET e == f.out[1].events IN
            \A i, j \in 1..Len(e) :
                i < j => /\ TypeRank(e[i].type) <= TypeRank(e[j].type)
                         /\ e[i].type = e[j].type => e[i].n < e[j].n

\* a top-level write request with all three types, part of it from a nested action
C2_Witness ==
    /\ Depth = 1
    /\ Top.pc = "Done"
    /\ Top.out # <<>>
    /\ \E w \in 1..Len(Top.write_requests) : Len(Top.write_requests[w].events) > 1
    /\ \A t \in {Create, Update, Delete} :
         \E i \in 1..Len(Top.out[1].events) : Top.out[1].events[i].type = t
    /\ \E i, j \in 1..Len(Top.out[1].events) :
         i # j /\ Top.out[1].events[i].type = Top.out[1].events[j].type

\* C3: merge_write_requests raises ValueError whenever two of its inputs have
\* different user ids, wherever they stand and whether or not they carry
\* events; for the empty input it returns None.
C3_MergeRejectsTwoUsers ==
    mw.done =>
        /\ (\E i, j \in 1..Len(mw.input) : mw.input[i].user_id # mw.input[j].user_id)
               => mw.result.status = "ValueError"
        /\ mw.input = <<>> => (mw.result.status = "ok" /\ mw.result.wr = <<>>)

\* the other user comes last, after two requests of one user, and has no events
C3_Witness ==
    /\ mw.done
    /\ Len(mw.input) = 3
    /\ mw.input[1].user_id = mw.input[2].user_id
    /\ mw.input[3].user_id # mw.input[1].user_id
    /\ mw.input[3].events = <<>>
    /\ mw.input[1].events # <<>>
    /\ mw.result.status = "ValueError"

AccumulatedEvents(frame) ==
    SumSeq([i \in 1..Len(frame.write_requests) |-> Len(frame.write_requests[i].events)])

NoSpeakers(frame) ==
    /\ frame.name = DeleteAllSpeakers
    /\ frame.payload # <<>>
    /\ \A k \in 1..Len(frame.payload) :
         /\ frame.payload[k]["id"] \in ListIds
         /\ SpeakerInstances(FetchedList(frame, frame.payload[k]["id"])) = <<>>

\* C4: perform never returns a write request without events: with no event
\* accumulated the result is None; delete_all_speakers on lists whose
\* speaker_ids is empty or absent yields no instance, no event, no result
\* and None.
C4_NoEmptyWriteRequest ==
    \A f \in Frames :
        f.pc = "Done" =>
            /\ f.out # <<>> => f.out[1].events # <<>>
            /\ AccumulatedEvents(f) = 0 => f.out = <<>>
            /\ NoSpeakers(f) => /\ f.yielded = <<>>
                                /\ f.write_requests = <<>>
                                /\ f.results = <<>>
                                /\ f.out = <<>>

\* delete_all_speakers on the list with an empty and the list without speaker_ids
C4_Witness ==
    /\ Depth = 1
    /\ Top.pc = "Done"
    /\ NoSpeakers(Top)
    /\ Top.payload = <<Inst1("id", 2), Inst1("id", 3)>>
    /\ Top.out = <<>>

\* C5: when a step of perform raises, no write request is returned or handed
\* to the datastore, and the persisted models are those from before the
\* request.
C5_NoPartialWrite ==
    /\ \A f \in Frames :
         f.error # "" => /\ f.pc = "Raised"
                         /\ f.out = <<>>
                         /\ Len(written) = f.before.written
                         /\ models = f.before.models
    /\ (stack # <<>> /\ stack[1].pc # "Finished") =>
         /\ Len(written) = stack[1].before.written
         /\ models = stack[1].before.models

\* the datastore fails on the second list after the speakers of the first
\* list have produced events
C5_Witness ==
    /\ Depth = 1
    /\ Top.pc = "Raised"
    /\ Top.error = "DatastoreException"
    /\ AccumulatedEvents(Top) > 0
    /\ models = InitModels
    /\ written = <<>>

\* an element lacks a required property or carries an undeclared one
ViolatesSchema(name, instance) ==
    \/ \E p \in Schema(name).required : instance[p] = Absent
    \/ \E p \in Fields : /\ instance[p] # Absent
                         /\ p \notin Schema(name).required
                         /\ p \notin Schema(name).optional

\* C6: if an element of the batch, at any position, violates the schema,
\* perform fails in validation: the permission service is not asked,
\* get_updated_instances does not run, the datastore is not read and no event
\* is built in that call.
C6_SchemaFirst ==
    /\ \A f \in Frames :
         (\E k \in 1..Len(f.payload) : ViolatesSchema(f.name, f.payload[k])) =>
             /\ f.pc \in {"Validating", "Raised"}
             /\ f.pc = "Raised" => f.error = "ActionException"
             /\ StepsOf(f.call) \subseteq {"validate", "schema_error"}
             /\ ~f.gen_started
             /\ f.yielded = <<>>
             /\ f.write_requests = <<>>
    /\ \A c \in 1..calls :
         "schema_error" \in StepsOf(c) => StepsOf(c) \subseteq {"validate", "schema_error"}

\* the second element carries an undeclared property, the first one is valid
C6_Witness ==
    /\ Depth = 1
    /\ Top.pc = "Raised"
    /\ ~Top.internal
    /\ Len(Top.payload) = 2
    /\ ~ViolatesSchema(Top.name, Top.payload[1])
    /\ Top.payload[2]["wrong_field"] # Absent
    /\ Top.index = 1
    /\ trace = <<<<1, "validate">>, <<1, "schema_error">>>>

PastValidation(frame) ==
    /\ frame.pc # "Validating"
    /\ "schema_error" \notin StepsOf(frame.call)

\* C7 as stated: the permission service is asked exactly once in a perform
\* call that is not internal and never in an internal one.
C7_PermissionOncePerCall ==
    (stack # <<>> /\ stack[1].pc \in {"Done", "Raised"}) =>
        StepCount(1, "permission") = IF stack[1].internal THEN 0 ELSE 1

\* C7 amended: the permission service is asked at most once per perform
\* call: once when the call is not internal and the payload passed the schema
\* validation, never when the call is internal or the validation failed; when
\* it denies, perform raises before get_updated_instances runs and before an
\* instance is processed or a write request accumulated.
C7_PermissionAfterValidation ==
    /\ \A f \in Frames :
         /\ StepCount(f.call, "permission") =
                IF ~f.internal /\ PastValidation(f) THEN 1 ELSE 0
         /\ f.error = "PermissionDenied" =>
                /\ StepsOf(f.call) \subseteq {"validate", "permission"}
                /\ ~f.gen_started
                /\ f.yielded = <<>>
                /\ f.write_requests = <<>>
    /\ \A f \in Frames : f.call # 1 => f.internal
    /\ \A c \in 2..calls : StepCount(c, "permission") = 0

\* the permission service denies a batch of two valid elements
C7_Witness ==
    /\ Depth = 1
    /\ Top.pc = "Raised"
    /\ Top.error = "PermissionDenied"
    /\ Len(Top.payload) = 2
    /\ StepCount(1, "permission") = 1

Range(s) == {s[i] : i \in 1..Len(s)}

\* the required fields an entry of the folded view is rejected for
Offending(entry) ==
    CASE entry.type = Create ->
             {f \in Range(RequiredFieldsOf(entry.fqid[1])) : entry.fields[f] \in {Absent, Null, 0}}
      [] entry.type = Update ->
             {f \in Range(RequiredFieldsOf(entry.fqid[1])) : entry.fields[f] \in {Null, 0}}
      [] OTHER -> {}

Offenders == {i \in 1..Len(vr.fdict) : Offending(vr.fdict[i]) # {}}

\* C8: validate_required_fields raises exactly when an entity folded to
\* Create lacks a required field or has it falsy, or an entity folded to
\* Update has a required field with a falsy value; the exception names the
\* first such entity and lists exactly its fields; an Update that leaves a
\* required field out passes.
C8_RequiredFields ==
    vr.done =>
        /\ (vr.result.status = "RequiredFieldsException") <=> (Offenders # {})
        /\ Offenders # {} =>
             LET i == CHOOSE x \in Offenders : \A y \in Offenders : x <= y IN
             /\ vr.result.fqid = vr.fdict[i].fqid
             /\ vr.result.type = vr.fdict[i].type
             /\ Range(vr.result.fields) = Offending(vr.fdict[i])
             /\ Len(vr.result.fields) = Cardinality(Offending(vr.fdict[i]))

\* an Update that leaves a required field out passes, and the Update of the
\* next entity is rejected for the one required field it sets to a falsy value
C8_Witness ==
    /\ vr.done
    /\ Len(vr.fdict) = 2
    /\ vr.fdict[1].type = Update
    /\ vr.fdict[1].fields["name"] = 5
    /\ vr.fdict[1].fields["meeting_id"] = Absent
    /\ vr.fdict[2].type = Update
    /\ vr.result.status = "RequiredFieldsException"
    /\ vr.result.fqid = vr.fdict[2].fqid
    /\ vr.result.fields = <<"name">>

\* C9: an entity with a Delete event folds to Delete and is never rejected,
\* whatever Create or Update events come before the Delete.
C9_DeleteSupersedes ==
    vr.done =>
        \A k \in 1..Len(vr.input) :
            vr.input[k].type = Delete =>
                LET i == FdictIndex(vr.fdict, vr.input[k].fqid) IN
                /\ i # 0
                /\ vr.fdict[i].type = Delete
                /\ ~(vr.result.status = "RequiredFieldsException"
                        /\ vr.result.fqid = vr.input[k].fqid)

\* a Create without the required fields, then a Delete of the same entity
C9_Witness ==
    /\ vr.done
    /\ Len(vr.input) = 2
    /\ vr.input[1].type = Create
    /\ Keys(vr.input[1].fields) = {}
    /\ vr.input[2].type = Delete
    /\ vr.input[2].fqid = vr.input[1].fqid
    /\ vr.result.status = "ok"

\* C10: in one top-level perform call, nested calls included, the registry
\* of locked fields is read and reset exactly once, by the top-level call at
\* its merging step, also when a call produces no event.
C10_DrainedOnceAtTop ==
    /\ \A i \in 1..Len(trace) : trace[i][2] = "drain" => trace[i][1] = 1
    /\ (Depth = 1 /\ Top.pc = "Done") =>
         Cardinality({i \in 1..Len(trace) : trace[i][2] = "drain"}) = 1

\* C11: the locked_fields of the write request a top-level perform returns
\* hold every field that was read with the lock flag in the operation tree of
\* the call, the reads of nested actions included.
C11_LocksCoverAllReads ==
    (Depth = 1 /\ Top.pc = "Done" /\ Top.out # <<>>) =>
        reads \subseteq LockedKeys(Top.out[1].locked_fields)

\* both requests read a common field with the lock flag, each before the
\* write request of the other one was written
ReadBeforeWrite(i, j) ==
    /\ pending[i].out # <<>>
    /\ pending[j].out # <<>>
    /\ pending[i].reads \cap pending[j].reads # {}
    /\ pending[j].at # 0 => pending[i].held < pending[j].at
    /\ pending[i].at # 0 => pending[j].held < pending[i].at

\* C12: of two independent requests that read the same fields with the lock
\* flag before either is written, at most one is written: the one that
\* reaches the datastore second is rejected and none of its events is applied.
C12_SecondWriterRejected ==
    /\ \A i, j \in 1..Len(pending) :
         (i # j /\ ReadBeforeWrite(i, j)) =>
             /\ ~(pending[i].status = "committed" /\ pending[j].status = "committed")
             /\ (pending[i].status = "committed" /\ pending[j].status # "waiting")
                    => pending[j].status = "rejected"
    /\ \A i \in 1..Len(pending) :
         pending[i].status = "rejected" =>
             /\ \A w \in 1..Len(written) : written[w] # pending[i].out[1]
             /\ \A e \in 1..Len(pending[i].out[1].events) :
                  pending[i].out[1].events[e].type = Create =>
                      pending[i].out[1].events[e].fqid[2] \notin models.speakers

\* two requests for the same user and list, the second of them written first
C12_Witness ==
    /\ Len(pending) = 2
    /\ pending[1].out # <<>>
    /\ pending[2].out # <<>>
    /\ pending[1].out[1].events[1].fields["user_id"] = pending[2].out[1].events[1].fields["user_id"]
    /\ pending[1].out[1].events[1].fields["list_of_speakers_id"]
           = pending[2].out[1].events[1].fields["list_of_speakers_id"]
    /\ pending[2].status = "committed"
    /\ pending[1].status = "rejected"
    /\ Len(written) = 1

\* the relation fields with equal fields, each with the names under which the
\* instance holds a value for it
EqualFieldRelations ==
    {<<k, n>> \in (1..Len(ModelRelationFields))
                      \X {"category_id", "origin_id", "tag_ids", "group_$1_ids"} :
        /\ ModelRelationFields[k].equal_fields # <<>>
        /\ vrel.instance.rel[n].kind # "absent"
        /\ \/ n = ModelRelationFields[k].own_field_name
           \/ (ModelRelationFields[k].template /\ Replacement(ModelRelationFields[k], n) # "")}

\* some entity referenced by a relation with equal fields differs from the
\* instance in one of the equal fields
SomeMismatch ==
    \E kn \in EqualFieldRelations :
        \E i \in 1..Len(vrel.instance.rel[kn[2]].ids) :
            \E e \in 1..Len(ModelRelationFields[kn[1]].equal_fields) :
                LET name == ModelRelationFields[kn[1]].equal_fields[e]
                    theirs == vrel.db[<<ModelRelationFields[kn[1]].to,
                                        vrel.instance.rel[kn[2]].ids[i]>>][name]
                    ours == vrel.instance.eq[name]
                IN (IF ours = Absent THEN Null ELSE ours)
                       # (IF theirs = Absent THEN Null ELSE theirs)

\* C13: validate_relation_fields raises ActionException exactly when an
\* entity referenced by a relation field with equal fields, whose value the
\* instance holds, differs from the instance in one of the equal fields, an
\* absent value counting as null on both sides; a relation whose value is
\* null references no entity and is never rejected.
C13_EqualFields ==
    vrel.done =>
        /\ (vrel.result.status = "ActionException") <=> SomeMismatch
        /\ vrel.result.status = "ActionException" =>
               /\ vrel.result.fqid \in RelationTargets
               /\ (IF vrel.instance.eq[vrel.result.name] = Absent THEN Null
                   ELSE vrel.instance.eq[vrel.result.name])
                      # (IF vrel.db[vrel.result.fqid][vrel.result.name] = Absent THEN Null
                         ELSE vrel.db[vrel.result.fqid][vrel.result.name])
        /\ (\A n \in DOMAIN vrel.instance.rel :
                vrel.instance.rel[n].kind \in {"absent", "none"})
               => vrel.result.status = "ok"

\* only the second tag of the list differs from the instance; the single
\* relation is null although its target differs
C13_Witness ==
    /\ vrel.done
    /\ vrel.instance.rel["tag_ids"] = ListValue(<<1, 2>>)
    /\ vrel.instance.rel["category_id"] = NoneValue
    /\ vrel.instance.rel["group_$1_ids"] = NoValue
    /\ vrel.instance.eq["meeting_id"] = 1
    /\ vrel.db[<<"motion_category", 1>>]["meeting_id"] = 2
    /\ vrel.db[<<"tag", 1>>]["meeting_id"] = 1
    /\ vrel.db[<<"tag", 2>>]["meeting_id"] = 2
    /\ vrel.result.status = "ActionException"
    /\ vrel.result.fqid = <<"tag", 2>>

MergeEntities == {<<"tag", 1>>, <<"tag", 2>>}

\* the annotation lists of one entity in the write requests, in their order
AnnotationsOf(write_requests, fqid) ==
    Flatten([k \in 1..Len(write_requests) |-> InfoOf(write_requests[k].information, fqid)])

EventsOf(write_requests) ==
    Flatten([k \in 1..Len(write_requests) |-> write_requests[k].events])

\* C14: the write request that merge_write_requests returns holds the events
\* of all inputs, concatenated in input order, and for every entity the
\* annotations of all inputs, concatenated in input order, with one entry per
\* annotated entity: nothing is lost, replaced or duplicated.
C14_MergeConcatenates ==
    (mw.done /\ mw.result.status = "ok" /\ mw.result.wr # <<>>) =>
        LET wr == mw.result.wr[1] IN
        /\ wr.events = EventsOf(mw.input)
        /\ \A fqid \in MergeEntities :
             /\ InfoOf(wr.information, fqid) = AnnotationsOf(mw.input, fqid)
             /\ Cardinality({i \in 1..Len(wr.information) : wr.information[i].fqid = fqid})
                    = IF AnnotationsOf(mw.input, fqid) = <<>> THEN 0 ELSE 1

\* three write requests of one user that all annotate tag/1
C14_Witness ==
    /\ mw.done
    /\ mw.result.status = "ok"
    /\ mw.result.wr # <<>>
    /\ Len(mw.input) = 3
    /\ \A k \in 1..3 : InfoOf(mw.input[k].information, <<"tag", 1>>) # <<>>
    /\ Len(InfoOf(mw.input[2].information, <<"tag", 1>>)) = 2
    /\ Len(InfoOf(mw.result.wr[1].information, <<"tag", 1>>)) = 4
    /\ Len(mw.result.wr[1].events) = 4

\* C15: an action run through execute_other_action is performed with the
\* caller's user id and internal=True; the permission service is never asked
\* for it, every write request it contributes carries the user id of the
\* caller's write requests, and no perform of the tree ends in the ValueError
\* that merge_write_requests raises for write requests of different users.
C15_NestedRunsAsCaller ==
    /\ \A k \in 2..Depth : /\ stack[k].internal
                           /\ stack[k].user_id = stack[1].user_id
    /\ \A i \in 1..Len(trace) : trace[i][1] >= 2 => trace[i][2] # "permission"
    /\ \A f \in Frames :
         /\ \A i \in 1..Len(f.write_requests) : f.write_requests[i].user_id = stack[1].user_id
         /\ f.out # <<>> => f.out[1].user_id = stack[1].user_id
         /\ f.error # "ValueError"

\* a topic.create that is not internal has asked the permission service, has
\* run a dependent action that contributed a write request, and has merged
C15_Witness ==
    /\ Depth = 1
    /\ ~Top.internal
    /\ Top.user_id = 2
    /\ Top.pc = "Done"
    /\ calls = 2
    /\ StepCount(1, "permission") = 1
    /\ StepCount(2, "event") >= 1
    /\ StepCount(2, "return") = 1
    /\ Top.out # <<>>
    /\ Len(Top.out[1].events) >= 3

\* C16: the write requests of a dependent action reach the caller's list
\* unmerged, and write requests are merged and kind-sorted once per request,
\* by the perform that the request handler called, never by the perform of a
\* dependent action.
C16_MergedOnceAtTop ==
    /\ \A i \in 1..Len(trace) : trace[i][2] = "merge" => trace[i][1] = 1
    /\ (Depth = 1 /\ Top.pc = "Done") => StepCount(1, "merge") = 1
    /\ \A k \in 2..Depth :
         stack[k].pc = "Done" => Len(stack[k].out) = Len(stack[k].write_requests)

\* the list of speakers has no speaker who waits
NoWaitingSpeakers(db, list_of_speakers_id) ==
    \A r \in db.speaker_data :
        r.list_of_speakers_id = list_of_speakers_id => r.begin_time # Null

\* C17: when speaker.create for a user on a list of speakers without waiting
\* speakers is committed, the datastore holds the new speaker with weight 1,
\* and the speaker's id is the last of the list's speaker_ids and of the
\* user's speaker ids of the meeting, after the ids that were there before.
C17_SpeakerOnEmptyList ==
    (/\ Depth = 1
     /\ Top.name = SpeakerCreate
     /\ Top.pc = "Finished"
     /\ Top.out # <<>>
     /\ NoWaitingSpeakers(Top.before.models, Top.payload[1]["list_of_speakers_id"])) =>
        LET old == Top.before.models
            u == Top.payload[1]["user_id"]
            l == Top.payload[1]["list_of_speakers_id"]
            id == Top.results[1]
        IN /\ id \notin old.speakers
           /\ SpeakerModel(id, u, l, 1, Null) \in models.speaker_data
           /\ Cardinality({r \in models.speaker_data : r.id = id}) = 1
           /\ models.los[l].speaker_ids = Append(old.los[l].speaker_ids, id)
           /\ models.user_speaker_ids[u] = Append(old.user_speaker_ids[u], id)

\* user 3, who has a speaker on list 2, is added to list 1, whose only
\* speaker is talking with weight 5
C17_Witness ==
    /\ Depth = 1
    /\ Top.name = SpeakerCreate
    /\ Top.pc = "Finished"
    /\ Top.before.models = TalkerModels
    /\ Top.payload = <<Inst2("user_id", 3, "list_of_speakers_id", 1)>>
    /\ models.los[1].speaker_ids = <<1, 3>>
    /\ models.user_speaker_ids[3] = <<2, 3>>
    /\ SpeakerModel(3, 3, 1, 1, Null) \in models.speaker_data

\* the frame is in the loop over the instances or behind it
InInstancePhase(frame) ==
    frame.pc \in {"NextInstance", "Update", "InNested", "Emit", "Merging", "Done", "Finished",
                  "Rejected"}

\* C18: while the payload is validated, the cursor is the zero-based index of
\* the element under validation, and a schema failure leaves it at the
\* offending element; after validation it is -1; while the i-th instance
\* (zero-based) is processed it is i and the instance is the i-th payload
\* element if get_updated_instances is the default, and it is still -1 if the
\* action overrides get_updated_instances.
C18_Cursor ==
    /\ \A f \in Frames :
         /\ f.pc = "Validating" =>
               /\ f.index \in 0..Len(f.payload)
               /\ \A j \in 1..f.index : SchemaValid(f.name, f.payload[j])
         /\ f.pc = "Transforming" => f.index = -1
         /\ f.error = "PermissionDenied" => f.index = -1
         /\ InInstancePhase(f) =>
               IF IsNative(f.name)
               THEN /\ f.index = Len(f.yielded) - 1
                    /\ f.yielded = SubSeq(f.payload, 1, f.index + 1)
               ELSE f.index = -1
    /\ (stack # <<>> /\ calls = 1 /\ StepCount(1, "schema_error") = 1) =>
          /\ stack[1].index < Len(stack[1].payload)
          /\ ~SchemaValid(stack[1].name, stack[1].payload[stack[1].index + 1])
          /\ StepCount(1, "validate") = stack[1].index

\* topic.create processes its second instance and runs delete_all_speakers,
\* which processes the second speaker of list 1
C18_Witness ==
    /\ Depth = 2
    /\ stack[1].name = TopicCreate
    /\ stack[1].pc = "InNested"
    /\ stack[1].index = 1
    /\ Len(stack[1].payload) = 2
    /\ stack[2].name = DeleteAllSpeakers
    /\ stack[2].pc = "Emit"
    /\ Len(stack[2].yielded) = 2
    /\ stack[2].index = -1

\* the state of perform in which a step of the trace is taken
PhaseOf(step) ==
    CASE step \in {"validate", "schema_error"} -> 1
      [] step = "permission" -> 2
      [] step \in {"transform", "fetch"} -> 3
      [] step \in {"instance", "read", "event"} -> 4
      [] step \in {"merge", "drain"} -> 5
      [] step = "return" -> 6

\* C19: the steps of one perform call are taken in the order Validating,
\* PermissionChecking, Transforming, PerInstanceProcessing, Merging, Done; no
\* step of an earlier state follows a step of a later one, so every datastore
\* read of get_updated_instances comes before the first instance is processed.
C19_PhasesInOrder ==
    \A i, j \in 1..Len(trace) :
        (i < j /\ trace[i][1] = trace[j][1]) => PhaseOf(trace[i][2]) <= PhaseOf(trace[j][2])

\* the list change of an event has the ids for the field on this side, or
\* does not have the side if there are no ids
SideIs(side, field, ids) ==
    IF ids = <<>> THEN side = <<>> ELSE side = <<[field |-> field, ids |-> ids]>>

\* C20: handle_relation_updates answers with one write request per relation
\* update element, in the order of the mapping; each has one Update event on
\* the model of the fully-qualified field; for an add or remove element the
\* event sets that field to the element's value and changes no list; for a
\* list update it sets no field, and its list change has the add side exactly
\* if there are ids to add and the remove side exactly if there are ids to
\* remove.
C20_OneUpdatePerRelation ==
    hru.done =>
        /\ Len(hru.result) = Len(hru.input)
        /\ \A i \in 1..Len(hru.input) :
             LET fqfield == hru.input[i].fqfield
                 data == hru.input[i].data
                 wr == hru.result[i]
             IN /\ Len(wr.events) = 1
                /\ wr.events[1].type = Update
                /\ wr.events[1].fqid = <<fqfield[1], fqfield[2]>>
                /\ wr.user_id = hru.user_id
                /\ IF data.type \in {"add", "remove"}
                   THEN /\ Keys(wr.events[1].fields) = {fqfield[3]}
                        /\ wr.events[1].fields[fqfield[3]] = data.value
                        /\ wr.events[1].list_fields.add = <<>>
                        /\ wr.events[1].list_fields.remove = <<>>
                   ELSE /\ Keys(wr.events[1].fields) = {}
                        /\ SideIs(wr.events[1].list_fields.add, fqfield[3], data.add)
                        /\ SideIs(wr.events[1].list_fields.remove, fqfield[3], data.remove)

\* an add, a list update that only removes, and a remove, in this order
C20_Witness ==
    /\ hru.done
    /\ Len(hru.input) = 3
    /\ hru.input[1] = [fqfield |-> <<"speaker", 2, "user_id">>,
                       data |-> FieldUpdateElement("add", 2)]
    /\ hru.input[2] = [fqfield |-> <<"list_of_speakers", 1, "speaker_ids">>,
                       data |-> ListUpdateElement(<<>>, <<1, 2>>)]
    /\ hru.input[3] = [fqfield |-> <<"speaker", 1, "list_of_speakers_id">>,
                       data |-> FieldUpdateElement("remove", Null)]
    /\ Len(hru.result) = 3
    /\ hru.result[2].events[1].list_fields.add = <<>>
    /\ hru.result[2].events[1].list_fields.remove # <<>>
    /\ hru.result[3].events[1].fields["list_of_speakers_id"] = Null

\* the events of the checked write request, as handed in, that target fqid
EventsOn(fqid) == {k \in 1..Len(vr.input) : vr.input[k].fqid = fqid}

\* the value that the last of the events K gives field f, Absent if none does
LastValue(K, f) ==
    LET S == {k \in K : vr.input[k].fields[f] # Absent}
    IN IF S = {} THEN Absent
       ELSE vr.input[CHOOSE k \in S : \A j \in S : j <= k].fields[f]

\* the folded view of an entity without Delete event: the kind of its first
\* event, and for every field the value of the last event that sets it
FoldedView(fqid) ==
    LET K == EventsOn(fqid) IN
    [fqid |-> fqid,
     type |-> vr.input[CHOOSE k \in K : \A j \in K : k <= j].type,
     fields |-> [f \in Fields |-> LastValue(K, f)]]

NotDeleted == {fqid \in {vr.input[k].fqid : k \in 1..Len(vr.input)} :
                  \A k \in EventsOn(fqid) : vr.input[k].type # Delete}

\* C21: for an entity with several events, none of them a Delete,
\* validate_required_fields checks the union of the events' fields, the later
\* event's value winning, under the kind of the entity's first event: it
\* raises exactly if this view of some entity has an offending required
\* field, so a Create is not rejected for a field that a later Update
\* supplies, and is rejected for a field that a later Update sets falsy.
C21_FoldedFields ==
    vr.done =>
        /\ \A fqid \in NotDeleted :
             LET e == vr.fdict[FdictIndex(vr.fdict, fqid)] IN
             /\ FdictIndex(vr.fdict, fqid) # 0
             /\ e.type = FoldedView(fqid).type
             /\ e.fields = FoldedView(fqid).fields
        /\ (vr.result.status = "RequiredFieldsException")
              <=> (\E fqid \in NotDeleted : Offending(FoldedView(fqid)) # {})
        /\ vr.result.status = "RequiredFieldsException" =>
              /\ vr.result.fqid \in NotDeleted
              /\ Range(vr.result.fields) = Offending(FoldedView(vr.result.fqid))

\* a Create of tag/1 without meeting_id, an Update that supplies it, and an
\* Update that sets the name to 0: rejected as a Create, for the name only
C21_Witness ==
    /\ vr.done
    /\ Len(vr.input) = 3
    /\ \A k \in 1..3 : vr.input[k].fqid = <<"tag", 1>>
    /\ vr.input[1].type = Create
    /\ vr.input[1].fields = Inst1("name", 5)
    /\ vr.input[2].type = Update
    /\ vr.input[2].fields = Inst2("name", 5, "meeting_id", 1)
    /\ vr.input[3].type = Update
    /\ vr.input[3].fields = Inst2("name", 0, "meeting_id", 1)
    /\ vr.result.status = "RequiredFieldsException"
    /\ vr.result.type = Create
    /\ vr.result.fields = <<"name">>

\* C22: for an fqid that is a key of the additional relation models,
\* fetch_model answers from there, does not read the datastore and leaves the
\* registry of locked fields as it is; with mapped fields the answer has
\* exactly these fields, None for those the additional model lacks, without
\* them it is the additional model.  For any other fqid it reads the
\* datastore, with lock_result set.
C22_FetchModel ==
    fm.done =>
        LET i == ContextIndex(fm.additional, fm.fqid)
            mapped == {fm.mapped_fields[k] : k \in 1..Len(fm.mapped_fields)}
        IN IF i # 0
           THEN /\ fm.result.status = "ok"
                /\ ~fm.result.read
                /\ fm.result.registry = fm.registry
                /\ IF mapped = {}
                   THEN fm.result.model = fm.additional[i].model
                   ELSE /\ Keys(fm.result.model) = mapped
                        /\ \A f \in mapped :
                             fm.result.model[f] =
                                 IF fm.additional[i].model[f] = Absent THEN Null
                                 ELSE fm.additional[i].model[f]
           ELSE /\ fm.result.read
                /\ fm.result.lock_result
                /\ fm.result.status = "ok" =>
                      /\ LockedKeys(fm.result.registry) =
                            LockedKeys(fm.registry) \cup
                                {<<fm.fqid[1], fm.fqid[2], f>> :
                                    f \in IF mapped = {} THEN {WholeModel} ELSE mapped}
                      /\ fm.result.model =
                            IF mapped = {} THEN fm.store[ContextIndex(fm.store, fm.fqid)].model
                            ELSE Restrict(fm.store[ContextIndex(fm.store, fm.fqid)].model,
                                          fm.mapped_fields)

\* tag/1 is in the additional relation models with a name only and in the
\* datastore with other values; name and meeting_id are asked for
C22_Witness ==
    /\ fm.done
    /\ fm.fqid = <<"tag", 1>>
    /\ ContextIndex(fm.additional, fm.fqid) # 0
    /\ fm.additional[ContextIndex(fm.additional, fm.fqid)].model = Inst1("name", 5)
    /\ ContextIndex(fm.store, fm.fqid) # 0
    /\ fm.mapped_fields = <<"name", "meeting_id">>
    /\ fm.registry = {}
    /\ fm.result.model = Inst2("name", 5, "meeting_id", Null)
    /\ fm.result.registry = {}

\* dict lookup: <<model>> for a key of the dict, <<>> for any other fqid
Lookup(dict, fqid) ==
    IF ContextIndex(dict, fqid) = 0 THEN <<>> ELSE <<dict[ContextIndex(dict, fqid)].model>>

\* C23: the additional relation models of the action that
\* execute_other_action runs have the keys of the datastore's, the caller's
\* and the supplied models, each once; for an fqid the supplied model is
\* taken if there is one, else the caller's, else the datastore's; the
\* caller's own additional relation models stay as they were.
C23_NestedContext ==
    nctx.done =>
        /\ \A fqid \in FetchFqids :
             /\ Lookup(nctx.result, fqid) =
                    IF Lookup(nctx.supplied, fqid) # <<>> THEN Lookup(nctx.supplied, fqid)
                    ELSE IF Lookup(nctx.own, fqid) # <<>> THEN Lookup(nctx.own, fqid)
                    ELSE Lookup(nctx.datastore, fqid)
             /\ Cardinality({i \in 1..Len(nctx.result) : nctx.result[i].fqid = fqid}) <= 1
        /\ \A i \in 1..Len(nctx.result) : nctx.result[i].fqid \in FetchFqids
        /\ nctx.own_after = nctx.own

\* tag/1 is in all three dicts, tag/2 in the datastore's and the caller's
C23_Witness ==
    /\ nctx.done
    /\ Lookup(nctx.datastore, <<"tag", 1>>) # <<>>
    /\ Lookup(nctx.own, <<"tag", 1>>) # <<>>
    /\ Lookup(nctx.supplied, <<"tag", 1>>) = <<Inst1("name", 5)>>
    /\ Lookup(nctx.datastore, <<"tag", 2>>) # <<>>
    /\ Lookup(nctx.own, <<"tag", 2>>) = <<Inst1("name", 4)>>
    /\ Lookup(nctx.supplied, <<"tag", 2>>) = <<>>
    /\ Lookup(nctx.result, <<"tag", 1>>) = <<Inst1("name", 5)>>
    /\ Lookup(nctx.result, <<"tag", 2>>) = <<Inst1("name", 4)>>

\* the frame of delete_all_speakers has started to iterate its instances and
\* has neither raised nor been written
Iterating(frame) ==
    /\ frame.name = DeleteAllSpeakers
    /\ frame.pc \in {"NextInstance", "Update", "InNested", "Emit", "Merging", "Done"}

\* one delete instance per speaker id of the list, in the order of speaker_ids
ExpectedSpeakers(list_of_speakers) ==
    IF list_of_speakers.has_speaker_ids
    THEN [i \in 1..Len(list_of_speakers.speaker_ids) |->
             [EmptyInstance EXCEPT !["id"] = list_of_speakers.speaker_ids[i]]]
    ELSE <<>>

\* the payload elements whose list the generator has fetched
Fetched(frame) == 1..frame.gen_pos

InContext(frame, k) ==
    ContextIndex(frame.additional_relation_models,
                 <<"list_of_speakers", frame.payload[k]["id"]>>) # 0

SpeakerIdsKey(frame, k) == <<"list_of_speakers", frame.payload[k]["id"], "speaker_ids">>

\* C24 as stated: delete_all_speakers yields one delete instance per speaker
\* id of the lists of the payload, in payload order and in the order of
\* speaker_ids, nothing for a list with empty or missing speaker_ids, and the
\* read of speaker_ids of every list it has fetched is lock-registered.
C24_EveryListLocked ==
    \A f \in Frames :
        Iterating(f) =>
            /\ f.yielded \o f.gen_buf =
                   Flatten([k \in 1..f.gen_pos |->
                               ExpectedSpeakers(FetchedList(f, f.payload[k]["id"]))])
            /\ \A k \in Fetched(f) : SpeakerIdsKey(f, k) \in reads

\* C24: delete_all_speakers yields one delete instance per speaker id of the
\* lists of the payload, in payload order and in the order of speaker_ids,
\* nothing for a list with empty or missing speaker_ids; the read of
\* speaker_ids is lock-registered for every fetched list that is not in the
\* additional relation models, and for a list that is there the datastore is
\* not read.
C24_DeleteAllSpeakersBatch ==
    \A f \in Frames :
        Iterating(f) =>
            /\ f.yielded \o f.gen_buf =
                   Flatten([k \in 1..f.gen_pos |->
                               ExpectedSpeakers(FetchedList(f, f.payload[k]["id"]))])
            /\ \A k \in Fetched(f) : ~InContext(f, k) => SpeakerIdsKey(f, k) \in reads
            /\ StepCount(f.call, "fetch") = Cardinality({k \in Fetched(f) : ~InContext(f, k)})
            /\ f.pc \in {"Merging", "Done"} => f.gen_pos = Len(f.payload)

\* delete_all_speakers, run by topic.create with list 1 in the additional
\* relation models, has yielded the speaker of that model without a read
C24_Witness ==
    /\ Depth = 2
    /\ calls = 2
    /\ Iterating(Top)
    /\ Top.pc = "Done"
    /\ InContext(Top, 1)
    /\ Top.yielded = <<Inst1("id", 2)>>
    /\ StepCount(2, "fetch") = 0
    /\ SpeakerIdsKey(Top, 1) \notin reads

HasParent(instance) == instance["parent_id"] \notin {Absent, Null}

\* C25: agenda_item.create gives an instance without parent level 0 and an
\* instance with a parent the parent's level (0 if the parent has none) plus
\* 1; is_hidden is true exactly if the type of the instance is the hidden
\* type or the parent is hidden, is_internal exactly if the type is the
\* internal type or the parent is internal; the batch has the length and
\* order of the payload, and nothing else of an instance is changed.
C25_AgendaItemLevels ==
    (ag.done /\ ag.result.status = "ok") =>
        /\ Len(ag.result.payload) = Len(ag.input)
        /\ \A i \in 1..Len(ag.input) :
             LET in == ag.input[i]
                 out == ag.result.payload[i]
             IN /\ \A f \in Fields \ {"level", "is_hidden", "is_internal"} : out[f] = in[f]
                /\ out["level"] =
                      IF ~HasParent(in) THEN 0
                      ELSE IF ag.db[in["parent_id"]]["level"] = Absent THEN 1
                      ELSE ag.db[in["parent_id"]]["level"] + 1
                /\ out["is_hidden"] \in {0, 1}
                /\ out["is_hidden"] = 1 <=>
                      \/ in["type"] = HiddenItem
                      \/ HasParent(in) /\ ag.db[in["parent_id"]]["is_hidden"] = 1
                /\ out["is_internal"] \in {0, 1}
                /\ out["is_internal"] = 1 <=>
                      \/ in["type"] = InternalItem
                      \/ HasParent(in) /\ ag.db[in["parent_id"]]["is_internal"] = 1

\* a common item below item 1, which is internal, hidden and of level 2, and
\* an internal item without parent
C25_Witness ==
    /\ ag.done
    /\ ag.result.status = "ok"
    /\ Len(ag.input) = 2
    /\ ag.input[1]["type"] = CommonItem
    /\ ag.input[1]["parent_id"] = 1
    /\ ag.db[1]["level"] = 2
    /\ ag.db[1]["is_hidden"] = 1
    /\ ag.db[1]["is_internal"] = 1
    /\ ag.input[2]["type"] = InternalItem
    /\ ag.input[2]["parent_id"] = Absent
    /\ ag.result.payload[1]["level"] = 3
    /\ ag.result.payload[1]["is_hidden"] = 1
    /\ ag.result.payload[1]["is_internal"] = 1
    /\ ag.result.payload[2]["level"] = 0
    /\ ag.result.payload[2]["is_hidden"] = 0
    /\ ag.result.payload[2]["is_internal"] = 1

ProducedEntities == {produced[k].events[1].fqid : k \in 1..Len(produced)}

\* C26: when a top-level perform that ran dependent actions returns, the
\* events of its write request are the events of all write requests built in
\* the request, in the order they were built, kind-sorted once, and the
\* annotations of every entity are those of all these write requests in the
\* order they were built: the merge and sort in the dependent actions change
\* nothing of the result.
C26_AsIfMergedOnce ==
    (Depth = 1 /\ Top.pc = "Done") =>
        /\ Top.out = <<>> <=> EventsOf(produced) = <<>>
        /\ Top.out # <<>> =>
              /\ Top.out[1].events = SortEvents(EventsOf(produced))
              /\ \A fqid \in ProducedEntities :
                    InfoOf(Top.out[1].information, fqid) = AnnotationsOf(produced, fqid)
              /\ \A i \in 1..Len(Top.out[1].information) :
                    /\ Top.out[1].information[i].fqid \in ProducedEntities
                    /\ \A j \in 1..Len(Top.out[1].information) :
                          Top.out[1].information[i].fqid = Top.out[1].information[j].fqid
                              => i = j

\* topic.create with two instances: the first ran delete_all_speakers on a
\* list with speakers, the second tag.create, whose annotation of meeting/1
\* lies between those of the two topics
C26_Witness ==
    /\ Depth = 1
    /\ Top.pc = "Done"
    /\ Top.name = TopicCreate
    /\ calls = 3
    /\ Top.out # <<>>
    /\ Top.out[1].events # EventsOf(produced)
    /\ \E k \in 1..Len(produced) : produced[k].events[1].type = Delete
    /\ \E k \in 1..Len(produced) : produced[k].events[1].fqid[1] = "tag"
    /\ Len(AnnotationsOf(produced, <<"meeting", 1>>)) = 3
    /\ Len(Top.write_requests) < Len(produced)

\* C27: when perform is called again on the same action object, the write
\* request the later call returns holds only the events and annotations of
\* the write requests built during that call, none of an earlier call on
\* the object, whether that call succeeded or failed.
C27_OnlyThisCall ==
    (Depth = 1 /\ Top.pc = "Done") =>
        /\ Top.out = <<>> => EventsOf(produced) = <<>>
        /\ Top.out # <<>> =>
              /\ Len(Top.out[1].events) = Len(EventsOf(produced))
              /\ \A i \in 1..Len(Top.out[1].information) :
                    Top.out[1].information[i].texts
                       = AnnotationsOf(produced, Top.out[1].information[i].fqid)

\* C28: the locked fields of the write request that a perform call returns
\* are fields that were lock-read during that call: a field registered
\* during an earlier perform on the same datastore, one that raised or that
\* produced no event, is not among them.
C28_OnlyLocksOfThisCall ==
    (Depth = 1 /\ Top.pc = "Done" /\ Top.out # <<>>) =>
        LockedKeys(Top.out[1].locked_fields) \subseteq reads

\* C29: merge_write_requests leaves every write request handed to it as it
\* was: after the call each input has the events and the annotation lists it
\* had before, also when several inputs annotate the same entity.
C29_MergeInputsUnchanged ==
    mw.done =>
        /\ Len(mw.result.inputs) = Len(mw.input)
        /\ \A k \in 1..Len(mw.input) :
              /\ mw.result.inputs[k].events = mw.input[k].events
              /\ mw.result.inputs[k].information = mw.input[k].information

\* C30: validate_required_fields has no side effect on the write request it
\* checks: when it has returned or raised, every event has the kind and the
\* fields it had before, also when several events are on the same entity.
C30_EventsUnchanged ==
    vr.done =>
        /\ Len(vr.events) = Len(vr.input)
        /\ \A i \in 1..Len(vr.input) :
              /\ vr.events[i].type = vr.input[i].type
              /\ vr.events[i].fqid = vr.input[i].fqid
              /\ vr.events[i].fields = vr.input[i].fields

\* C31: every value that agenda_item.create derives from the parent item
\* (level, is_hidden, is_internal, weight) fits the parent as it is stored
\* when the create is committed: the parent fields that were read are among
\* the locked fields of the write request, so a create whose parent was
\* changed between the read and the commit is rejected.
C31_ParentValuesAtCommit ==
    /\ (ag.pc = "Done" /\ ag.out # <<>>) =>
          {r.key : r \in ag.parent_reads} \subseteq LockedKeys(ag.out[1].locked_fields)
    /\ (ag.pc = "Finished" /\ Get(ag.input, "parent_id") # Null) =>
          LET parent == ag.db[ag.input["parent_id"]]
              item == ag.db[NewItem]
          IN /\ \A r \in ag.parent_reads : LastChanged(ag.log, r.key) <= r.position
             /\ item["level"] = GetOr(parent, "level", 0) + 1
             /\ item["is_hidden"] =
                   (IF Get(ag.input, "type") = HiddenItem THEN 1
                    ELSE GetOr(parent, "is_hidden", 0))
             /\ item["is_internal"] =
                   (IF Get(ag.input, "type") = InternalItem THEN 1
                    ELSE GetOr(parent, "is_internal", 0))
             /\ item["weight"] =
                   (IF Get(parent, "weight") = Null THEN ag.input["weight"]
                    ELSE parent["weight"] + 1)
====
